---- MODULE Spec2Model ----
(***************************************************************************)
(* A model of the rs-renderer software rasterizer: the depth-tested        *)
(* FrameBuffer (src/src/framebuffer.rs), its SSAA box filter, the          *)
(* whole-triangle clipper (src/src/renderer/clip.rs), the viewport         *)
(* transform and the draw call of the renderer (src/src/renderer.rs), the  *)
(* draw call with its triangles processed by concurrent workers under the  *)
(* exclusive framebuffer lock, the scan conversion of one triangle         *)
(* (src/src/rasterizer.rs and Renderer::rasterize_colored_triangle), the   *)
(* backface test of a draw call (src/src/vertex.rs) and the fragment       *)
(* shaders (src/src/renderer/fragment_shader.rs).                          *)
(*                                                                         *)
(* f32 values are modelled exactly: a finite value is <<m, e>>, standing   *)
(* for m * 2^e with m odd (or <<0, 0>> for zero) and |m| < 2^24; every     *)
(* arithmetic result is rounded to a 24-bit significand, ties to even.     *)
(* Infinities and NaN use the reserved exponent SpecialExp, as IEEE-754    *)
(* does.  Exponent overflow/underflow and the sign of zero are outside the *)
(* model: the inputs stay far from both.                                   *)
(***************************************************************************)
EXTENDS Integers, Sequences, FiniteSets, TLC

VARIABLES
    width, height, data, depth,     \* the FrameBuffer (framebuffer.rs:6-11)
    call,                           \* the last FrameBuffer call and its arguments
    commits,                        \* per pixel: put_pixel calls that wrote it since new/clear
    nstored,                        \* put_pixel calls that wrote a pixel since new
    ncalls,                         \* FrameBuffer calls made
    ssaaOut,                        \* the last ssaa call: its factor and the buffer returned
    clipCall,                       \* the last two clip_triangle calls: arguments and results
    xfCall,                         \* the last transform_colored_vertices call
    drawCall,                       \* the render_colored_triangles call: its triangle list
    workers,                        \* per concurrent worker: its place in put_pixel
    lock,                           \* the worker that holds the framebuffer lock, or 0
    rast,                           \* rasterize_colored_triangle: its triangle and loop position
    cullCall,                       \* the last is_backface_world_space call
    shadeCall,                      \* the last two FragmentShader::shade calls
    texCall,                        \* the last Texture::sample call
    filterRun,                      \* a running outline filter: its snapshot, marks and position
    lineRun                         \* a running draw_line_clipped call: its loop position

fbVars == <<width, height, data, depth>>
fbHist == <<call, commits, nstored, ncalls>>

parVars == <<workers, lock>>

postVars == <<texCall, filterRun, lineRun>>

pipeVars == <<clipCall, xfCall, drawCall, parVars, rast, cullCall, shadeCall, postVars, postVars>>

vars == <<fbVars, fbHist, ssaaOut, pipeVars>>

---------------------------------------------------------------------------
(* Bounds *)

MaxDim   == 2       \* largest framebuffer width and height
MaxCalls == 2       \* FrameBuffer calls per behaviour
MaxSide  == 4       \* largest width and height of a buffer handed to ssaa
MaxTris  == 2       \* most triangles in the list of one draw call
MaxWorkers == 2     \* most triangles processed concurrently
RasterDim  == 10    \* width and height of the framebuffer a triangle is rasterized on

---------------------------------------------------------------------------
(* f32 arithmetic *)

SigBits    == 24            \* significand width of f32 (1 implicit + 23 stored bits)
EMax       == 127           \* largest exponent of a finite f32
SpecialExp == EMax + 1      \* reserved exponent: infinities and NaN

NaN    == <<0, SpecialExp>>
PosInf == <<1, SpecialExp>>
NegInf == <<-1, SpecialExp>>

IsNaN(a)    == a = NaN
IsInf(a)    == a = PosInf \/ a = NegInf
IsFinite(a) == a[2] # SpecialExp

Abs(n) == IF n < 0 THEN -n ELSE n
Sgn(n) == IF n < 0 THEN -1 ELSE IF n > 0 THEN 1 ELSE 0
Min2(a, b) == IF a < b THEN a ELSE b

RECURSIVE Norm(_, _)
\* the canonical form of m * 2^e: odd significand, or <<0, 0>>
Norm(m, e) ==
    IF m = 0 THEN <<0, 0>>
    ELSE IF m % 2 = 0 THEN Norm(m \div 2, e + 1)
    ELSE <<m, e>>

RECURSIVE BitLen(_)
\* number of bits of the non-negative integer n
BitLen(n) == IF n = 0 THEN 0 ELSE 1 + BitLen(n \div 2)

\* round the integer M * 2^e, with a sticky flag for a discarded non-zero
\* remainder below M's last bit, to SigBits bits, ties to even
RoundSticky(M, e, sticky) ==
    LET a == Abs(M)
        k == BitLen(a) - SigBits
    IN  IF k <= 0 THEN Norm(M, e)      \* only reached with sticky = FALSE
        ELSE LET q    == a \div (2 ^ k)
                 r    == a % (2 ^ k)
                 half == 2 ^ (k - 1)
                 up   == r > half \/ (r = half /\ (sticky \/ q % 2 = 1))
                 q2   == IF up THEN q + 1 ELSE q
             IN  Norm(Sgn(M) * q2, e + k)

RoundSig(M, e) == RoundSticky(M, e, FALSE)

RECURSIVE ScaleFor(_, _, _)
\* least k >= 0 with n * 2^k >= d * 2^(SigBits + 1)
ScaleFor(n, d, k) ==
    IF n * (2 ^ k) >= d * (2 ^ (SigBits + 1)) THEN k ELSE ScaleFor(n, d, k + 1)

\* the f32 nearest to (n / d) * 2^e, for integers n >= 0, d > 0
RoundRat(n, d, e) ==
    IF n = 0 THEN <<0, 0>>
    ELSE LET k == ScaleFor(n, d, 0)
             Q == (n * (2 ^ k)) \div d
             R == (n * (2 ^ k)) % d
         IN  RoundSticky(Q, e - k, R # 0)

FNeg(a) == IF IsNaN(a) THEN NaN ELSE <<-a[1], a[2]>>

\* exponent of the bit above the leading bit of a finite non-zero value
Top(a) == BitLen(Abs(a[1])) + a[2]
Max2(a, b) == IF a > b THEN a ELSE b

\* sign of a - b for non-NaN a, b
Cmp(a, b) ==
    IF a = b THEN 0
    ELSE IF a = PosInf \/ b = NegInf THEN 1
    ELSE IF a = NegInf \/ b = PosInf THEN -1
    ELSE IF Sgn(a[1]) # Sgn(b[1]) THEN Sgn(Sgn(a[1]) - Sgn(b[1]))
    ELSE IF Top(a) # Top(b) THEN Sgn(a[1]) * Sgn(Top(a) - Top(b))
    ELSE LET lo == Min2(a[2], b[2])
         IN  Sgn(a[1] * (2 ^ (a[2] - lo)) - b[1] * (2 ^ (b[2] - lo)))

\* the comparisons of f32: every comparison with NaN is false
FLt(a, b) == ~IsNaN(a) /\ ~IsNaN(b) /\ Cmp(a, b) < 0
FLe(a, b) == ~IsNaN(a) /\ ~IsNaN(b) /\ Cmp(a, b) <= 0
FGt(a, b) == FLt(b, a)
FGe(a, b) == FLe(b, a)
FEq(a, b) == ~IsNaN(a) /\ ~IsNaN(b) /\ Cmp(a, b) = 0

GuardBits == 4              \* extra low bits an addition keeps before it rounds

\* m * 2^e in units of 2^w; bits below 2^w are kept as a sticky last bit
AlignTo(m, e, w) ==
    IF e >= w THEN m * (2 ^ (e - w))
    ELSE IF w - e > SigBits THEN Sgn(m)
    ELSE LET q == Abs(m) \div (2 ^ (w - e))
             r == Abs(m) % (2 ^ (w - e))
         IN  Sgn(m) * (IF r # 0 /\ q % 2 = 0 THEN q + 1 ELSE q)

FAdd(a, b) ==
    IF IsNaN(a) \/ IsNaN(b) THEN NaN
    ELSE IF IsInf(a) /\ IsInf(b) THEN (IF a = b THEN a ELSE NaN)
    ELSE IF IsInf(a) THEN a
    ELSE IF IsInf(b) THEN b
    ELSE IF a[1] = 0 THEN b
    ELSE IF b[1] = 0 THEN a
    ELSE LET w == Max2(Top(a), Top(b)) - (SigBits + GuardBits)
         IN  RoundSig(AlignTo(a[1], a[2], w) + AlignTo(b[1], b[2], w), w)

FSub(a, b) == FAdd(a, FNeg(b))

FMul(a, b) ==
    IF IsNaN(a) \/ IsNaN(b) THEN NaN
    ELSE IF IsInf(a) \/ IsInf(b)
         THEN (IF a[1] = 0 \/ b[1] = 0 THEN NaN
               ELSE IF Sgn(a[1]) = Sgn(b[1]) THEN PosInf ELSE NegInf)
    ELSE IF BitLen(Abs(a[1])) + BitLen(Abs(b[1])) <= 31
         THEN RoundSig(a[1] * b[1], a[2] + b[2])
    ELSE \* the 48-bit product, from 12-bit limbs, as hi * 2^24 + lo
         LET limb == 2 ^ 12
             aH   == Abs(a[1]) \div limb
             aL   == Abs(a[1]) % limb
             bH   == Abs(b[1]) \div limb
             bL   == Abs(b[1]) % limb
             mid  == aH * bL + aL * bH
             lo0  == (mid % limb) * limb + aL * bL
             lo   == lo0 % (2 ^ SigBits)
             hi   == aH * bH + mid \div limb + lo0 \div (2 ^ SigBits)
             k    == Min2(SigBits, 30 - BitLen(hi))
             M    == hi * (2 ^ k) + lo \div (2 ^ (SigBits - k))
             st   == lo % (2 ^ (SigBits - k)) # 0
         IN  RoundSticky(Sgn(a[1]) * Sgn(b[1]) * M, a[2] + b[2] + SigBits - k, st)

FDiv(a, b) ==
    IF IsNaN(a) \/ IsNaN(b) THEN NaN
    ELSE IF IsInf(a) THEN (IF IsInf(b) THEN NaN
                           ELSE IF Sgn(a[1]) * Sgn(b[1]) >= 0 THEN PosInf ELSE NegInf)
    ELSE IF IsInf(b) THEN <<0, 0>>
    ELSE IF b[1] = 0 THEN (IF a[1] = 0 THEN NaN
                           ELSE IF a[1] > 0 THEN PosInf ELSE NegInf)
    ELSE IF a[1] = 0 THEN <<0, 0>>
    ELSE LET n == Abs(a[1])
             d == Abs(b[1])
             RECURSIVE DivBits(_, _, _, _)
             \* k more quotient bits of r / dd, for 0 <= r < 2 * dd:
             \* <<quotient, remainder # 0>>
             DivBits(r, dd, qq, k) ==
                 IF k = 0 THEN <<qq, r # 0>>
                 ELSE IF r >= dd THEN DivBits(2 * (r - dd), dd, 2 * qq + 1, k - 1)
                 ELSE DivBits(2 * r, dd, 2 * qq, k - 1)
             \* long division, for a divisor too wide for RoundRat: the
             \* operands are scaled so that d * 2^s2 <= n * 2^s1 < 2 * d * 2^s2
             s  == Max2(0, BitLen(d) - BitLen(n))
             s1 == IF n * (2 ^ s) < d THEN s + 1 ELSE s
             t  == Max2(0, BitLen(n) - BitLen(d))
             s2 == IF n < d THEN 0
                   ELSE IF d * (2 ^ t) > n THEN t - 1 ELSE t
             qr == DivBits(n * (2 ^ s1), d * (2 ^ s2), 0, SigBits + 2)
             q  == IF d < 32
                   THEN RoundRat(n, d, a[2] - b[2])
                   ELSE RoundSticky(qr[1], a[2] - b[2] - s1 + s2 - (SigBits + 1), qr[2])
         IN  IF Sgn(a[1]) = Sgn(b[1]) THEN q ELSE FNeg(q)

\* f32::sqrt: the root of the significand, scaled to SigBits + 2 bits with
\* an even exponent, is computed two bits of the operand per step
FSqrt(a) ==
    IF IsNaN(a) \/ a[1] < 0 THEN NaN
    ELSE IF a = PosInf \/ a[1] = 0 THEN a
    ELSE LET pairs == (SigBits + 2) \div 2
             RECURSIVE SqrtBits(_, _, _, _)
             \* <<root, remainder # 0>> of M * 4^pairs, from bit pair i of M down
             SqrtBits(M, i, root, rem) ==
                 IF i < 0 - pairs THEN <<root, rem # 0>>
                 ELSE LET pair  == IF i >= 0 THEN (M \div (4 ^ i)) % 4 ELSE 0
                          r2    == rem * 4 + pair
                          trial == root * 4 + 1
                      IN  IF r2 >= trial
                          THEN SqrtBits(M, i - 1, root * 2 + 1, r2 - trial)
                          ELSE SqrtBits(M, i - 1, root * 2, r2)
             s0 == SigBits + 1 - BitLen(a[1])
             s  == IF (a[2] - s0) % 2 = 0 THEN s0 ELSE s0 + 1
             rr == SqrtBits(a[1] * (2 ^ s), pairs - 1, 0, 0)
         IN  RoundSticky(rr[1], (a[2] - s) \div 2 - pairs, rr[2])

\* `n as f32` for a small non-negative integer
FromInt(n) == Norm(n, 0)

\* literals
F0       == <<0, 0>>
F1       == <<1, 0>>                \* 1.0
FHalf    == <<1, -1>>               \* 0.5
FQuarter == <<1, -2>>               \* 0.25
FTenth   == <<13421773, -27>>       \* 0.1f32 = 0x3DCCCCCD

---------------------------------------------------------------------------
(* FrameBuffer *)

Vec4(x, y, z, w) == <<x, y, z, w>>

Transparent == Vec4(F0, F0, F0, F0)         \* the color FrameBuffer::new fills in
Red         == Vec4(F1, F0, F0, F1)
Green       == Vec4(F0, F1, F0, F1)
Blue        == Vec4(F0, F0, F1, F1)

FarDepth == F1                              \* the depth new and clear fill in

ClearColors == {Blue, Red}
\* the (color, depth) arguments of put_pixel: depths inside [0, 1] in both
\* colors, and a negative, a greater-than-one, an infinite and a NaN depth
Fragments   == {<<Red, F0>>, <<Green, F0>>, <<Red, FHalf>>, <<Green, FHalf>>,
                <<Green, F1>>,
                <<Red, <<-1, -2>> >>, <<Green, <<5, -2>> >>,
                <<Red, NaN>>, <<Green, PosInf>>, <<Red, NegInf>>}
Dims        == 1 .. MaxDim

Indices(w, h) == 0 .. (w * h - 1)

\* FrameBuffer::new
New(w, h) ==
    [width  |-> w,
     height |-> h,
     data   |-> [i \in Indices(w, h) |-> Transparent],
     depth  |-> [i \in Indices(w, h) |-> FarDepth]]

\* mutant of ClearBuf: the depth buffer is not reset
ClearBuf_KeepDepth(fb, color) ==
    [fb EXCEPT !.data = [i \in DOMAIN fb.data |-> color]]

\* FrameBuffer::clear: data.fill(color); depth.fill(1.0)
ClearBuf(fb, color) ==
    [fb EXCEPT !.data  = [i \in DOMAIN fb.data |-> color],
               !.depth = [i \in DOMAIN fb.depth |-> F1]]

\* mutants of DepthTest: ties overwrite; no lower bound on the depth; no
\* comparison with the stored depth
DepthTest_TieWins(d, stored) == FGe(d, F0) /\ FLe(d, F1) /\ FLe(d, stored)
DepthTest_NoFloor(d, stored) == FLe(d, F1) /\ FLt(d, stored)
DepthTest_LastWins(d, stored) == FGe(d, F0) /\ FLe(d, F1)

\* mutant of DepthTest: the farther depth wins
DepthTest_FartherWins(d, stored) == FGe(d, F0) /\ FLe(d, F1) /\ FGt(d, stored)

\* the condition of put_pixel's inner if: depth in [0, 1] and nearer than stored
DepthTest(d, stored) == FGe(d, F0) /\ FLe(d, F1) /\ FLt(d, stored)

\* mutant of InBounds: the linear index is checked instead of x and y
InBounds_ByIndex(fb, x, y) == y * fb.width + x < fb.width * fb.height

\* the condition of put_pixel's outer if
InBounds(fb, x, y) == x < fb.width /\ y < fb.height

\* self.data[idx] = color
StoreColor(fb, idx, color) == [fb EXCEPT !.data[idx] = color]

\* mutant of StoreDepth: the depth is not stored
StoreDepth_Lost(fb, idx, d) == fb

\* self.depth[idx] = depth
StoreDepth(fb, idx, d) == [fb EXCEPT !.depth[idx] = d]

\* FrameBuffer::put_pixel
PutPixelBuf(fb, x, y, color, d) ==
    IF InBounds(fb, x, y)
    THEN LET idx == y * fb.width + x
         IN  IF DepthTest(d, fb.depth[idx])
             THEN StoreDepth(StoreColor(fb, idx, color), idx, d)
             ELSE fb
    ELSE fb

\* clip_triangle not called yet
NoClip == [n |-> 0, triangle |-> << >>, result |-> << >>,
           prevTriangle |-> << >>, prevResult |-> << >>]

\* transform_colored_vertices not called yet
NoTransform == [called |-> FALSE, triangle |-> << >>, clip |-> << >>,
                divisor |-> << >>, raster |-> << >>]

\* render_colored_triangles not called yet
NoDraw == [done |-> FALSE, triangles |-> << >>]

\* the stages of the pipeline that a behaviour does not exercise
ParIdle == workers = << >> /\ lock = 0

\* no texture sampled, no outline filter and no line drawing running
PostIdle ==
    /\ texCall = [status |-> "none"]
    /\ filterRun = [status |-> "none"]
    /\ lineRun = [status |-> "none"]

\* no triangle being rasterized, no backface test and no shader call made
RastIdle ==
    /\ PostIdle
    /\ rast = [status |-> "none"]
    /\ cullCall = [status |-> "none"]
    /\ shadeCall = [n |-> 0]

PipeIdle ==
    clipCall = NoClip /\ xfCall = NoTransform /\ drawCall = NoDraw /\ ParIdle /\ RastIdle

NoSsaa == [status |-> "none", factor |-> 0, fb |-> New(0, 0)]   \* ssaa not called yet

Buf == [width |-> width, height |-> height, data |-> data, depth |-> depth]

NoCall == [op |-> "new", x |-> 0, y |-> 0, color |-> Transparent, depth |-> F0]

InitFB ==
    /\ \E w \in Dims, h \in Dims :
          /\ width = w
          /\ height = h
          /\ data = New(w, h).data
          /\ depth = New(w, h).depth
          /\ commits = [i \in Indices(w, h) |-> 0]
    /\ call = NoCall
    /\ nstored = 0
    /\ ncalls = 0
    /\ ssaaOut = NoSsaa
    /\ PipeIdle

Clear(color) ==
    /\ ncalls < MaxCalls
    /\ data' = ClearBuf(Buf, color).data
    /\ depth' = ClearBuf(Buf, color).depth
    /\ call' = [op |-> "clear", x |-> 0, y |-> 0, color |-> color, depth |-> F0]
    /\ commits' = [i \in DOMAIN commits |-> 0]
    /\ ncalls' = ncalls + 1
    /\ UNCHANGED <<width, height, nstored>>

PutPixel(x, y, color, d) ==
    /\ ncalls < MaxCalls
    /\ data' = PutPixelBuf(Buf, x, y, color, d).data
    /\ depth' = PutPixelBuf(Buf, x, y, color, d).depth
    /\ commits' = [i \in DOMAIN commits |->
                     IF data'[i] # data[i] \/ depth'[i] # depth[i]
                     THEN commits[i] + 1 ELSE commits[i]]
    /\ nstored' = IF data' # data \/ depth' # depth THEN nstored + 1 ELSE nstored
    /\ call' = [op |-> "put", x |-> x, y |-> y, color |-> color, depth |-> d]
    /\ ncalls' = ncalls + 1
    /\ UNCHANGED <<width, height>>

NextFB ==
    \/ \E color \in ClearColors : Clear(color) /\ UNCHANGED <<ssaaOut, pipeVars>>
    \/ \E x \in 0 .. width, y \in 0 .. height, f \in Fragments :
          PutPixel(x, y, f[1], f[2]) /\ UNCHANGED <<ssaaOut, pipeVars>>

Spec == InitFB /\ [][NextFB]_vars

---------------------------------------------------------------------------
(* FrameBuffer::ssaa *)

\* mutant of SrcX: the block origin is not scaled by the factor
SrcX_Unscaled(x, factor, fx) == x + fx

\* src_x = x * factor + fx
SrcX(x, factor, fx) == x * factor + fx

\* src_y = y * factor + fy
SrcY(y, factor, fy) == y * factor + fy

NoSum == [r_sum |-> F0, g_sum |-> F0, b_sum |-> F0, a_sum |-> F0, count |-> 0]

RECURSIVE BlockSum(_, _, _, _, _, _)
\* the loops over fy and fx of ssaa, from their k-th iteration on (fy is the
\* outer loop): the four channel sums and the count of the block of (x, y)
BlockSum(fb, factor, x, y, k, acc) ==
    IF k = factor * factor THEN acc
    ELSE LET src_x == SrcX(x, factor, k % factor)
             src_y == SrcY(y, factor, k \div factor)
         IN  IF src_x < fb.width /\ src_y < fb.height
             THEN LET color == fb.data[src_y * fb.width + src_x]
                  IN  BlockSum(fb, factor, x, y, k + 1,
                               [a_sum |-> FAdd(acc.a_sum, color[4]),
                                r_sum |-> FAdd(acc.r_sum, color[1]),
                                g_sum |-> FAdd(acc.g_sum, color[2]),
                                b_sum |-> FAdd(acc.b_sum, color[3]),
                                count |-> acc.count + 1])
             ELSE BlockSum(fb, factor, x, y, k + 1, acc)

\* the color ssaa stores at output pixel (x, y)
AvgColor(fb, factor, x, y) ==
    LET s == BlockSum(fb, factor, x, y, 0, NoSum)
    IN  IF s.count > 0
        THEN Vec4(FDiv(s.r_sum, FromInt(s.count)), FDiv(s.g_sum, FromInt(s.count)),
                  FDiv(s.b_sum, FromInt(s.count)), FDiv(s.a_sum, FromInt(s.count)))
        ELSE Transparent

\* FrameBuffer::ssaa, for factor >= 1 (factor 0 panics: see CallSsaa)
Ssaa(fb, factor) ==
    IF factor = 1 THEN fb
    ELSE LET new_width  == fb.width \div factor
             new_height == fb.height \div factor
         IN  [New(new_width, new_height) EXCEPT
                 !.data = [i \in Indices(new_width, new_height) |->
                             AvgColor(fb, factor, i % new_width, i \div new_width)]]

Grey  == Vec4(FTenth, FTenth, FTenth, FTenth)       \* 0.1 in every channel
Amber == Vec4(F1, FHalf, FQuarter, FTenth)          \* four different channels

SsaaColors  == {Grey, Amber}
SsaaFactors == 0 .. (MaxSide + 1)

\* the buffers handed to ssaa: cleared to one color, then up to two pixels
\* written with the other color at depth 0.5
InitSsaa ==
    /\ \E w \in 1 .. MaxSide, h \in 1 .. MaxSide :
          /\ width = w
          /\ height = h
          /\ \E base \in SsaaColors, p \in Indices(w, h), q \in -1 .. (w * h - 1) :
                /\ p >= q
                /\ data = [i \in Indices(w, h) |->
                             IF i = q \/ (i = p /\ q # -1)
                             THEN CHOOSE c \in SsaaColors : c # base ELSE base]
                /\ depth = [i \in Indices(w, h) |->
                              IF data[i] = base THEN FarDepth ELSE FHalf]
          /\ commits = [i \in Indices(w, h) |-> 0]
    /\ call = NoCall
    /\ nstored = 0
    /\ ncalls = 0
    /\ ssaaOut = NoSsaa
    /\ PipeIdle

\* one call of ssaa per behaviour: ssaa takes &self and leaves the buffer as
\* it was, so a second call starts from the state of the first
CallSsaa(factor) ==
    /\ ssaaOut = NoSsaa
    /\ ssaaOut' = IF factor = 0
                   THEN [NoSsaa EXCEPT !.status = "panicked"]   \* self.width / 0
                   ELSE [status |-> "returned", factor |-> factor,
                         fb |-> Ssaa(Buf, factor)]
    /\ UNCHANGED <<fbVars, fbHist, pipeVars>>

NextSsaa == \E factor \in SsaaFactors : CallSsaa(factor)

SpecSsaa == InitSsaa /\ [][NextSsaa]_vars

---------------------------------------------------------------------------
(* SimpleClipper::clip_triangle *)

\* no framebuffer: the state of the behaviours that exercise one stage alone
FBIdle ==
    /\ width = 0
    /\ height = 0
    /\ data = New(0, 0).data
    /\ depth = New(0, 0).depth
    /\ call = NoCall
    /\ commits = [i \in Indices(0, 0) |-> 0]
    /\ nstored = 0
    /\ ncalls = 0
    /\ ssaaOut = NoSsaa

FNegOne == <<-1, 0>>        \* -1.0

\* the clip-space w of a vertex: behind the camera, on its plane, in front, NaN
ClipWs == {FNegOne, F0, F1, NaN}

\* the k-th vertex of a triangle: its position and the attributes that tell
\* the three vertices apart
ClipSpaceVertex(k, w) ==
    [position |-> [x |-> FromInt(k), y |-> F0, z |-> F0, w |-> w], color |-> k]

ClipTriangles ==
    {<<ClipSpaceVertex(1, w[1]), ClipSpaceVertex(2, w[2]), ClipSpaceVertex(3, w[3])>> :
        w \in ClipWs \X ClipWs \X ClipWs}

\* mutant of ClipTriangle: one vertex behind the camera discards the triangle
ClipTriangle_AnyBehind(triangle) ==
    IF \/ FLt(triangle[1].position.w, F0)
       \/ FLt(triangle[2].position.w, F0)
       \/ FLt(triangle[3].position.w, F0)
    THEN << >>
    ELSE <<triangle>>

\* SimpleClipper::clip_triangle: the Vec it returns
ClipTriangle(triangle) ==
    LET v0_w == triangle[1].position.w
        v1_w == triangle[2].position.w
        v2_w == triangle[3].position.w
    IN  IF FLt(v0_w, F0) /\ FLt(v1_w, F0) /\ FLt(v2_w, F0)
        THEN << >>
        ELSE <<triangle>>

InitClip ==
    /\ FBIdle
    /\ clipCall = NoClip
    /\ xfCall = NoTransform
    /\ drawCall = NoDraw
    /\ ParIdle
    /\ RastIdle

\* SimpleClipper is a unit struct: a call reads its argument and nothing else
CallClipTriangle(triangle) ==
    /\ clipCall' = [n |-> IF clipCall.n < 2 THEN clipCall.n + 1 ELSE 2,
                    triangle |-> triangle,
                    result |-> ClipTriangle(triangle),
                    prevTriangle |-> clipCall.triangle,
                    prevResult |-> clipCall.result]
    /\ UNCHANGED <<fbVars, fbHist, ssaaOut, rast, cullCall, shadeCall, postVars, xfCall, drawCall, parVars>>

NextClip == \E triangle \in ClipTriangles : CallClipTriangle(triangle)

SpecClip == InitClip /\ [][NextClip]_vars

---------------------------------------------------------------------------
(* Frustum::new and Renderer::transform_colored_vertices *)

F2 == <<1, 1>>              \* 2.0
F3 == <<3, 0>>              \* 3.0

Near        == F1           \* Frustum::new arguments: near, far, aspect and
Far         == F3           \* tan(fovy / 2) for fovy = 90 degrees
Aspect      == F1
TanHalfFovy == F1

ViewportW == 4              \* Renderer::new(camera, w, h): viewport 0, 0, w, h
ViewportH == 2

\* the projection matrix of Frustum::new, as its four columns
FrustumMat ==
    LET a == FDiv(F1, FMul(Aspect, TanHalfFovy))
        b == FDiv(F1, TanHalfFovy)
        c == FDiv(FNeg(FAdd(Far, Near)), FSub(Far, Near))
        d == FDiv(FMul(FMul(FNeg(F2), Far), Near), FSub(Far, Near))
    IN  << <<a,  F0, F0, F0>>,
           <<F0, b,  F0, F0>>,
           <<F0, F0, c,  FNegOne>>,
           <<F0, F0, d,  F0>> >>

\* Matrix4 * Vector4: row r of the product
MatRow(m, v, r) ==
    FAdd(FAdd(FAdd(FMul(m[1][r], v.x), FMul(m[2][r], v.y)), FMul(m[3][r], v.z)),
         FMul(m[4][r], v.w))

MatVec(m, v) ==
    [x |-> MatRow(m, v, 1), y |-> MatRow(m, v, 2),
     z |-> MatRow(m, v, 3), w |-> MatRow(m, v, 4)]

\* v.pos.extend(1.0)
Extend(pos) == [x |-> pos[1], y |-> pos[2], z |-> pos[3], w |-> F1]

\* pos = proj * view * model * pos, for a camera at the origin that looks down
\* -z and the identity model matrix: the vertex is given in view space
ToClipSpace(v) == MatVec(FrustumMat, Extend(v.pos))

\* pos /= pos.w
DivByW(pos) ==
    [x |-> FDiv(pos.x, pos.w), y |-> FDiv(pos.y, pos.w),
     z |-> FDiv(pos.z, pos.w), w |-> FDiv(pos.w, pos.w)]

\* the closure of transform_colored_vertices, from the divided position on
\* mutant of ToRasterPoint: screen y grows with NDC y
ToRasterPoint_Unflipped(v, pos) ==
    LET depth_z  == FMul(FAdd(pos.z, F1), FHalf)
        screen_x == FAdd(FMul(FMul(FAdd(pos.x, F1), FHalf), FromInt(ViewportW)),
                         FromInt(0))
        screen_y == FAdd(FMul(FMul(FAdd(pos.y, F1), FHalf), FromInt(ViewportH)),
                         FromInt(0))
    IN  [pos |-> <<screen_x, screen_y>>, color |-> v.color, z |-> depth_z]

ToRasterPoint(v, pos) ==
    LET depth_z  == FMul(FAdd(pos.z, F1), FHalf)        \* let depth
        screen_x == FAdd(FMul(FMul(FAdd(pos.x, F1), FHalf), FromInt(ViewportW)),
                         FromInt(0))
        screen_y == FAdd(FSub(FromInt(ViewportH),
                              FMul(FMul(FAdd(pos.y, F1), FHalf), FromInt(ViewportH))),
                         FromInt(0))
    IN  [pos |-> <<screen_x, screen_y>>, color |-> v.color, z |-> depth_z]

\* a vertex of a Triangle: position and color
ColoredVertex(x, y, z, color) ==
    [pos |-> <<FromInt(x), FromInt(y), FromInt(z)>>, color |-> color]

\* vertices between the near and the far plane, on the camera plane z = 0,
\* and behind the camera
SceneVertices ==
    {ColoredVertex(0, 0, -1, Red),   ColoredVertex(1, 0, -2, Green),
     ColoredVertex(-1, 1, -3, Blue), ColoredVertex(1, -1, -1, Red),
     ColoredVertex(1, 0, 0, Green),  ColoredVertex(0, 0, 0, Blue),
     ColoredVertex(0, 1, 1, Red),    ColoredVertex(-1, 1, -1, Blue)}

InitTransform ==
    /\ FBIdle
    /\ clipCall = NoClip
    /\ xfCall = NoTransform
    /\ drawCall = NoDraw
    /\ ParIdle
    /\ RastIdle

\* one call per behaviour: transform_colored_vertices takes &self and leaves
\* the renderer as it was
TransformColoredVertices(triangle) ==
    /\ xfCall = NoTransform
    /\ xfCall' =
          LET clip == [i \in 1 .. 3 |-> ToClipSpace(triangle[i])]
          IN  [called |-> TRUE,
               triangle |-> triangle,
               clip |-> clip,
               divisor |-> [i \in 1 .. 3 |-> clip[i].w],
               raster |-> [i \in 1 .. 3 |->
                             ToRasterPoint(triangle[i], DivByW(clip[i]))]]
    /\ UNCHANGED <<fbVars, fbHist, ssaaOut, rast, cullCall, shadeCall, postVars, clipCall, drawCall, parVars>>

NextTransform ==
    \E v0 \in SceneVertices, v1 \in SceneVertices, v2 \in SceneVertices :
        TransformColoredVertices(<<v0, v1, v2>>)

SpecTransform == InitTransform /\ [][NextTransform]_vars

---------------------------------------------------------------------------
(* Renderer::render_colored_triangles *)

White == Vec4(F1, F1, F1, F1)
Black == Vec4(F0, F0, F0, F1)
Cyan  == Vec4(F0, F1, F1, F1)

FThreeQuarters == <<3, -2>>         \* 0.75
FFiveQuarters  == <<5, -2>>         \* 1.25

\* A triangle of the list, given by what the loop body derives from it: the
\* result of is_backface_world_space, the pixels whose centre
\* is_inside_triangle accepts within the clamped bounding box, and the color
\* and the depth of the put_pixel calls (a triangle parallel to the screen).
RasterTriangle(backface, cover, color, d) ==
    [backface |-> backface, cover |-> cover, color |-> color, depth |-> d]

DrawTriangles ==
    {RasterTriangle(FALSE, "all",  Red,   FQuarter),
     RasterTriangle(FALSE, "all",  Green, FThreeQuarters),
     RasterTriangle(FALSE, "left", Amber, FHalf),
     RasterTriangle(FALSE, "top",  Grey,  FHalf),
     RasterTriangle(FALSE, "all",  White, F1),
     RasterTriangle(FALSE, "all",  Black, FFiveQuarters),
     RasterTriangle(TRUE,  "all",  Cyan,  F0)}

\* is_inside_triangle for the centre of pixel (x, y)
Covers(triangle, x, y) ==
    \/ triangle.cover = "all"
    \/ triangle.cover = "left" /\ x = 0
    \/ triangle.cover = "top" /\ y = 0

RECURSIVE RasterizeFrom(_, _, _)
\* the loops over y and x of rasterize_colored_triangle, from pixel k on
RasterizeFrom(fb, triangle, k) ==
    IF k = fb.width * fb.height THEN fb
    ELSE LET x == k % fb.width
             y == k \div fb.width
         IN  RasterizeFrom(IF Covers(triangle, x, y)
                           THEN PutPixelBuf(fb, x, y, triangle.color, triangle.depth)
                           ELSE fb,
                           triangle, k + 1)

RasterizeColoredTriangle(fb, triangle) == RasterizeFrom(fb, triangle, 0)

RECURSIVE RenderFrom(_, _, _)
\* the for loop of render_colored_triangles, from the i-th triangle on
RenderFrom(fb, triangles, i) ==
    IF i > Len(triangles) THEN fb
    ELSE RenderFrom(IF triangles[i].backface
                    THEN fb
                    ELSE RasterizeColoredTriangle(fb, triangles[i]),
                    triangles, i + 1)

\* the triangle lists of a draw call
RECURSIVE ListsOf(_)
ListsOf(n) ==
    IF n = 0 THEN {<< >>}
    ELSE ListsOf(n - 1) \cup
         {Append(l, t) : l \in {m \in ListsOf(n - 1) : Len(m) = n - 1},
                         t \in DrawTriangles}

\* a new buffer, or one cleared to a color
InitDraw ==
    /\ \E w \in Dims, h \in Dims :
          /\ width = w
          /\ height = h
          /\ \E fb \in {New(w, h), ClearBuf(New(w, h), Blue)} :
                /\ data = fb.data
                /\ depth = fb.depth
          /\ commits = [i \in Indices(w, h) |-> 0]
    /\ call = NoCall
    /\ nstored = 0
    /\ ncalls = 0
    /\ ssaaOut = NoSsaa
    /\ clipCall = NoClip
    /\ xfCall = NoTransform
    /\ drawCall = NoDraw
    /\ ParIdle
    /\ RastIdle

RenderColoredTriangles(triangles) ==
    /\ ~drawCall.done
    /\ data' = RenderFrom(Buf, triangles, 1).data
    /\ depth' = RenderFrom(Buf, triangles, 1).depth
    /\ drawCall' = [done |-> TRUE, triangles |-> triangles]
    /\ UNCHANGED <<width, height, fbHist, ssaaOut, rast, cullCall, shadeCall, postVars, clipCall, xfCall, parVars>>

NextDraw == \E triangles \in ListsOf(MaxTris) : RenderColoredTriangles(triangles)

SpecDraw == InitDraw /\ [][NextDraw]_vars

---------------------------------------------------------------------------
(* The triangles of one draw call processed by concurrent workers: one worker
   per triangle, each put_pixel under the exclusive framebuffer lock *)

ParTriangles ==
    {RasterTriangle(FALSE, "all",  Red,   FQuarter),
     RasterTriangle(FALSE, "all",  Green, FThreeQuarters),
     RasterTriangle(FALSE, "left", Amber, FHalf),
     RasterTriangle(TRUE,  "all",  Cyan,  F0)}

RECURSIVE ParListsOf(_)
ParListsOf(n) ==
    IF n = 0 THEN {<< >>}
    ELSE ParListsOf(n - 1) \cup
         {Append(l, t) : l \in {m \in ParListsOf(n - 1) : Len(m) = n - 1},
                         t \in ParTriangles}

WorkerIds == 1 .. Len(drawCall.triangles)

TriangleOf(i) == drawCall.triangles[i]

\* the pixels that worker i still has to write, from its position on
Pending(i) ==
    IF TriangleOf(i).backface THEN {}
    ELSE {k \in workers[i].k .. (width * height - 1) :
            Covers(TriangleOf(i), k % width, k \div width)}

NextPixel(i) == CHOOSE k \in Pending(i) : \A j \in Pending(i) : k <= j

InitPar ==
    /\ \E w \in Dims, h \in Dims :
          /\ width = w
          /\ height = h
          /\ data = New(w, h).data
          /\ depth = New(w, h).depth
          /\ commits = [i \in Indices(w, h) |-> 0]
    /\ call = NoCall
    /\ nstored = 0
    /\ ncalls = 0
    /\ ssaaOut = NoSsaa
    /\ clipCall = NoClip
    /\ xfCall = NoTransform
    /\ \E triangles \in ParListsOf(MaxWorkers) :
          /\ drawCall = [done |-> FALSE, triangles |-> triangles]
          /\ workers = [i \in 1 .. Len(triangles) |-> [pc |-> "scan", k |-> 0]]
    /\ lock = 0
    /\ RastIdle

\* worker i reaches its next put_pixel and takes the lock
Acquire(i) ==
    /\ workers[i].pc = "scan"
    /\ Pending(i) # {}
    /\ lock = 0
    /\ lock' = i
    /\ workers' = [workers EXCEPT ![i] = [pc |-> "test", k |-> NextPixel(i)]]
    /\ UNCHANGED <<fbVars, fbHist, ssaaOut, rast, cullCall, shadeCall, postVars, clipCall, xfCall, drawCall>>

\* put_pixel: the bounds check and the depth test against the stored depth
TestDepth(i) ==
    /\ workers[i].pc = "test"
    /\ workers' = [workers EXCEPT ![i].pc =
                      IF /\ InBounds(Buf, workers[i].k % width, workers[i].k \div width)
                         /\ DepthTest(TriangleOf(i).depth, depth[workers[i].k])
                      THEN "color" ELSE "unlock"]
    /\ UNCHANGED <<fbVars, fbHist, ssaaOut, rast, cullCall, shadeCall, postVars, clipCall, xfCall, drawCall, lock>>

\* put_pixel: self.data[idx] = color
WriteColor(i) ==
    /\ workers[i].pc = "color"
    /\ data' = StoreColor(Buf, workers[i].k, TriangleOf(i).color).data
    /\ workers' = [workers EXCEPT ![i].pc = "depth"]
    /\ UNCHANGED <<width, height, depth, fbHist, ssaaOut, rast, cullCall, shadeCall, postVars, clipCall, xfCall,
                   drawCall, lock>>

\* put_pixel: self.depth[idx] = depth
WriteDepth(i) ==
    /\ workers[i].pc = "depth"
    /\ depth' = StoreDepth(Buf, workers[i].k, TriangleOf(i).depth).depth
    /\ workers' = [workers EXCEPT ![i].pc = "unlock"]
    /\ UNCHANGED <<width, height, data, fbHist, ssaaOut, rast, cullCall, shadeCall, postVars, clipCall, xfCall,
                   drawCall, lock>>

\* put_pixel returns and worker i gives the lock back
Release(i) ==
    /\ workers[i].pc = "unlock"
    /\ lock' = 0
    /\ workers' = [workers EXCEPT ![i] = [pc |-> "scan", k |-> workers[i].k + 1]]
    /\ UNCHANGED <<fbVars, fbHist, ssaaOut, rast, cullCall, shadeCall, postVars, clipCall, xfCall, drawCall>>

\* worker i has no pixel left: its triangle is culled or rasterized
Finish(i) ==
    /\ workers[i].pc = "scan"
    /\ Pending(i) = {}
    /\ workers' = [workers EXCEPT ![i].pc = "done"]
    /\ UNCHANGED <<fbVars, fbHist, ssaaOut, rast, cullCall, shadeCall, postVars, clipCall, xfCall, drawCall, lock>>

\* the draw call returns when every worker is done
Join ==
    /\ ~drawCall.done
    /\ \A i \in WorkerIds : workers[i].pc = "done"
    /\ drawCall' = [drawCall EXCEPT !.done = TRUE]
    /\ UNCHANGED <<fbVars, fbHist, ssaaOut, rast, cullCall, shadeCall, postVars, clipCall, xfCall, parVars>>

NextPar ==
    \/ \E i \in WorkerIds : Acquire(i)
    \/ \E i \in WorkerIds : TestDepth(i)
    \/ \E i \in WorkerIds : WriteColor(i)
    \/ \E i \in WorkerIds : WriteDepth(i)
    \/ \E i \in WorkerIds : Release(i)
    \/ \E i \in WorkerIds : Finish(i)
    \/ Join

SpecPar == InitPar /\ [][NextPar]_vars

---------------------------------------------------------------------------
(* rasterizer.rs: barycentric coordinates, the inside test, interpolation *)

FEps == <<8796093, -43>>                \* 1e-6 as f32

\* cgmath vectors are sequences of f32; the operators of Vector2 and Vector3
VSub(a, b)   == [i \in DOMAIN a |-> FSub(a[i], b[i])]
VAdd(a, b)   == [i \in DOMAIN a |-> FAdd(a[i], b[i])]
VScale(a, s) == [i \in DOMAIN a |-> FMul(a[i], s)]
Dot(a, b) ==
    IF Len(a) = 2 THEN FAdd(FMul(a[1], b[1]), FMul(a[2], b[2]))
    ELSE FAdd(FAdd(FMul(a[1], b[1]), FMul(a[2], b[2])), FMul(a[3], b[3]))

\* InnerSpace::normalize: self * (1 / magnitude)
Normalize(a) == VScale(a, FDiv(F1, FSqrt(Dot(a, a))))

None == << >>                           \* Option::None

\* mutant of GetBarycentricCoords: the weights are returned as (u, v, w)
GetBarycentricCoords_Swapped(vertices, p) ==
    LET v0 == VSub(vertices[2], vertices[1])
        v1 == VSub(vertices[3], vertices[1])
        v2 == VSub(p, vertices[1])
        d00 == Dot(v0, v0)
        d01 == Dot(v0, v1)
        d11 == Dot(v1, v1)
        d20 == Dot(v2, v0)
        d21 == Dot(v2, v1)
        denom == FSub(FMul(d00, d11), FMul(d01, d01))
        v == FDiv(FSub(FMul(d11, d20), FMul(d01, d21)), denom)
        w == FDiv(FSub(FMul(d00, d21), FMul(d01, d20)), denom)
        u == FSub(FSub(F1, v), w)
    IN  IF FLt(<<Abs(denom[1]), denom[2]>>, FEps) THEN None ELSE <<u, v, w>>

\* mutant of GetBarycentricCoords: the last weight is 1 - v, without w
GetBarycentricCoords_Unbalanced(vertices, p) ==
    LET v0 == VSub(vertices[2], vertices[1])
        v1 == VSub(vertices[3], vertices[1])
        v2 == VSub(p, vertices[1])
        d00 == Dot(v0, v0)
        d01 == Dot(v0, v1)
        d11 == Dot(v1, v1)
        d20 == Dot(v2, v0)
        d21 == Dot(v2, v1)
        denom == FSub(FMul(d00, d11), FMul(d01, d01))
        v == FDiv(FSub(FMul(d11, d20), FMul(d01, d21)), denom)
        w == FDiv(FSub(FMul(d00, d21), FMul(d01, d20)), denom)
        u == FSub(F1, v)
    IN  IF FLt(<<Abs(denom[1]), denom[2]>>, FEps) THEN None ELSE <<w, v, u>>

\* get_barycentric_coords: None, or Some((w, v, u)); vertices[i] of the
\* source is vertices[i + 1] here
GetBarycentricCoords(vertices, p) ==
    LET v0 == VSub(vertices[2], vertices[1])
        v1 == VSub(vertices[3], vertices[1])
        v2 == VSub(p, vertices[1])
        Some(denom, v, w) ==
            IF FLt(<<Abs(denom[1]), denom[2]>>, FEps) THEN None
            ELSE <<w, v, FSub(FSub(F1, v), w)>>             \* u = 1.0 - v - w
        Solve(d00, d01, d11, d20, d21, denom) ==
            Some(denom,
                 FDiv(FSub(FMul(d11, d20), FMul(d01, d21)), denom),
                 FDiv(FSub(FMul(d00, d21), FMul(d01, d20)), denom))
        Dots(d00, d01, d11, d20, d21) ==
            Solve(d00, d01, d11, d20, d21, FSub(FMul(d00, d11), FMul(d01, d01)))
    IN  Dots(Dot(v0, v0), Dot(v0, v1), Dot(v1, v1), Dot(v2, v0), Dot(v2, v1))

\* interpolate_depth: perspective-correct, linear in 1/z
InterpolateDepth(points, bary) ==
    LET u == bary[1]
        v == bary[2]
        w == bary[3]
        inv_z0 == FDiv(F1, points[1].z)
        inv_z1 == FDiv(F1, points[2].z)
        inv_z2 == FDiv(F1, points[3].z)
        interpolated_inv_z ==
            FAdd(FAdd(FMul(w, inv_z0), FMul(v, inv_z1)), FMul(u, inv_z2))
    IN  FDiv(F1, interpolated_inv_z)

\* points[0].a * w + points[1].a * v + points[2].a * u, with (u, v, w) = bary
Weighted(a0, a1, a2, bary) ==
    VAdd(VAdd(VScale(a0, bary[3]), VScale(a1, bary[2])), VScale(a2, bary[1]))

InterpolateUv(points, bary) ==
    Weighted(points[1].uv, points[2].uv, points[3].uv, bary)

InterpolateColor(points, bary) ==
    Weighted(points[1].color, points[2].color, points[3].color, bary)

InterpolateNormal(points, bary) ==
    Normalize(Weighted(points[1].normal, points[2].normal, points[3].normal, bary))

\* mutant of GetBox: the box is one pixel wider on every side
GetBox_Wide(vertices) ==
    LET Least(k)    == LET a == IF FLt(vertices[2][k], vertices[1][k])
                                THEN vertices[2][k] ELSE vertices[1][k]
                       IN  IF FLt(vertices[3][k], a) THEN vertices[3][k] ELSE a
        Greatest(k) == LET a == IF FGt(vertices[2][k], vertices[1][k])
                                THEN vertices[2][k] ELSE vertices[1][k]
                       IN  IF FGt(vertices[3][k], a) THEN vertices[3][k] ELSE a
        \* `a.floor() as i32` (up = FALSE) and `a.ceil() as i32` (up = TRUE)
        RoundToI32(a, up) ==
            IF IsNaN(a) THEN 0
            ELSE IF IsInf(a) THEN a[1] * (2 ^ 30)   \* saturates; clamped by the caller
            ELSE IF a[2] >= 0 THEN a[1] * (2 ^ a[2])
            ELSE LET m == IF up THEN 0 - a[1] ELSE a[1]
                     q == IF 0 - a[2] > 30 THEN (IF m < 0 THEN 0 - 1 ELSE 0)
                          ELSE (m - (m % (2 ^ (0 - a[2])))) \div (2 ^ (0 - a[2]))
                 IN  IF up THEN 0 - q ELSE q
    IN  <<RoundToI32(Least(1), FALSE) - 1, RoundToI32(Least(2), FALSE) - 1,
          RoundToI32(Greatest(1), TRUE) + 1, RoundToI32(Greatest(2), TRUE) + 1>>

\* get_box: <<min_x, min_y, max_x, max_y>>
GetBox(vertices) ==
    LET Least(k)    == LET a == IF FLt(vertices[2][k], vertices[1][k])
                                THEN vertices[2][k] ELSE vertices[1][k]
                       IN  IF FLt(vertices[3][k], a) THEN vertices[3][k] ELSE a
        Greatest(k) == LET a == IF FGt(vertices[2][k], vertices[1][k])
                                THEN vertices[2][k] ELSE vertices[1][k]
                       IN  IF FGt(vertices[3][k], a) THEN vertices[3][k] ELSE a
        \* `a.floor() as i32` (up = FALSE) and `a.ceil() as i32` (up = TRUE)
        RoundToI32(a, up) ==
            IF IsNaN(a) THEN 0
            ELSE IF IsInf(a) THEN a[1] * (2 ^ 30)   \* saturates; clamped by the caller
            ELSE IF a[2] >= 0 THEN a[1] * (2 ^ a[2])
            ELSE LET m == IF up THEN 0 - a[1] ELSE a[1]
                     q == IF 0 - a[2] > 30 THEN (IF m < 0 THEN 0 - 1 ELSE 0)
                          ELSE (m - (m % (2 ^ (0 - a[2])))) \div (2 ^ (0 - a[2]))
                 IN  IF up THEN 0 - q ELSE q
    IN  <<RoundToI32(Least(1), FALSE), RoundToI32(Least(2), FALSE),
          RoundToI32(Greatest(1), TRUE), RoundToI32(Greatest(2), TRUE)>>

\* is_inside_triangle
IsInsideTriangle(vertices, p) ==
    LET v0 == VSub(vertices[2], vertices[1])
        v1 == VSub(vertices[3], vertices[2])
        v2 == VSub(vertices[1], vertices[3])
        p0 == VSub(p, vertices[1])
        p1 == VSub(p, vertices[2])
        p2 == VSub(p, vertices[3])
        cross0 == FSub(FMul(v0[1], p0[2]), FMul(v0[2], p0[1]))
        cross1 == FSub(FMul(v1[1], p1[2]), FMul(v1[2], p1[1]))
        cross2 == FSub(FMul(v2[1], p2[2]), FMul(v2[2], p2[1]))
    IN  \/ FGe(cross0, F0) /\ FGe(cross1, F0) /\ FGe(cross2, F0)
        \/ FLe(cross0, F0) /\ FLe(cross1, F0) /\ FLe(cross2, F0)

---------------------------------------------------------------------------
(* Renderer::rasterize_colored_triangle, one pixel of its loops per step,
   with the fragment colour computed by the normal-debug shader *)

\* n + 0.5, the centre coordinate of pixel column or row n
Mid(n) == FAdd(FromInt(n), FHalf)

\* the i-th RasterPoint of a triangle: its color, uv and world position are
\* those of a vertex with index i, to tell the three vertices apart
RasterPoint(i, pos, z, normal) ==
    [pos       |-> pos,
     world_pos |-> <<pos[1], pos[2], z>>,
     color     |-> [k \in 1 .. 3 |-> IF k = i THEN F1 ELSE FQuarter],
     normal    |-> normal,
     z         |-> z,
     uv        |-> <<IF i = 2 THEN F1 ELSE F0, IF i = 3 THEN F1 ELSE F0>>]

\* a triangle with depths z[i] and normals n[i] at the screen positions p[i]
RasterPoints(p, z, n) == [i \in 1 .. 3 |-> RasterPoint(i, p[i], z[i], n[i])]

\* the triangles rasterized: the right triangle with legs of 10 pixels, thin
\* and wide collinear triples, a point, triangles with a vertex or an edge on
\* pixel centres, and triangles of either winding
RasterScenes ==
    LET UnitZ == <<F0, F0, F1>>
        FlatAt(p, z) == RasterPoints(p, <<z, z, z>>, <<UnitZ, UnitZ, UnitZ>>)
        f0p6 == <<5033165, -23>>            \* 0.6
        f0p8 == <<13421773, -24>>           \* 0.8
        f2p1 == <<4404019, -21>>            \* 2.1
        f2p7 == <<11324621, -22>>           \* 2.7
        f3p2 == <<13421773, -22>>           \* 3.2
        f3p3 == <<13841203, -22>>           \* 3.3
    IN
    <<FlatAt(<<<<F0, F0>>, <<FromInt(10), F0>>, <<F0, FromInt(10)>>>>, FHalf),
      FlatAt(<<<<F0, F0>>, <<F1, F1>>, <<F2, F2>>>>, FHalf),
      \* (0.5, 0.5), (36.125, 64.5), (249.875, 448.5)
      FlatAt(<<<<Mid(0), Mid(0)>>, <<<<289, -3>>, Mid(64)>>, <<<<1999, -3>>, Mid(448)>>>>,
             FHalf),
      FlatAt(<<<<Mid(1), Mid(1)>>, <<Mid(1), Mid(1)>>, <<Mid(1), Mid(1)>>>>, FHalf),
      FlatAt(<<<<Mid(0), Mid(0)>>, <<Mid(0), Mid(1)>>, <<Mid(3), Mid(1)>>>>, FQuarter),
      \* depths 0.4375, 0.8125, 0.875
      RasterPoints(<<<<Mid(0), Mid(0)>>, <<Mid(3), Mid(0)>>, <<Mid(0), Mid(3)>>>>,
                   <<<<7, -4>>, <<13, -4>>, <<7, -3>>>>,
                   <<<<F1, F0, F0>>, <<f0p6, f0p8, F0>>, UnitZ>>),
      FlatAt(<<<<f2p7, f0p6>>, <<f2p1, f3p3>>, <<Mid(1), f3p2>>>>, FHalf),
      FlatAt(<<<<F0, F0>>, <<F0, F3>>, <<F3, F0>>>>, FThreeQuarters),
      \* partly off-screen: (-2.5, -1.5), (4.5, 1.5), (1.5, 12.5)
      FlatAt(<<<<Mid(0 - 3), Mid(0 - 2)>>, <<Mid(4), Mid(1)>>, <<Mid(1), Mid(12)>>>>, FHalf),
      \* wholly off-screen
      FlatAt(<<<<FromInt(12), FromInt(12)>>, <<FromInt(15), FromInt(12)>>,
               <<FromInt(12), FromInt(15)>>>>, FHalf)>>

\* NormalDebugShader::shade
NormalDebugShade(frag) == VScale(VAdd(frag.normal, <<F1, F1, F1>>), FHalf)

\* the pixel of the loops before the first iteration
NoPixel == [x |-> 0 - 1, y |-> 0 - 1, inside |-> FALSE, bary |-> None,
            shaded |-> FALSE, put |-> FALSE, color |-> Transparent, depth |-> F0]

\* a cleared RasterDim x RasterDim buffer and a triangle about to be rasterized
InitRaster ==
    /\ width = RasterDim
    /\ height = RasterDim
    /\ data = New(RasterDim, RasterDim).data
    /\ depth = New(RasterDim, RasterDim).depth
    /\ commits = [i \in Indices(RasterDim, RasterDim) |-> 0]
    /\ call = NoCall
    /\ nstored = 0
    /\ ncalls = 0
    /\ ssaaOut = NoSsaa
    /\ clipCall = NoClip
    /\ xfCall = NoTransform
    /\ drawCall = NoDraw
    /\ ParIdle
    /\ PostIdle
    /\ cullCall = [status |-> "none"]
    /\ shadeCall = [n |-> 0]
    /\ \E s \in 1 .. Len(RasterScenes) :
          LET Start(box) ==
                  rast = [status |-> IF box[1] <= box[3] /\ box[2] <= box[4]
                                     THEN "scan" ELSE "done",
                          scene |-> s, box |-> box, x |-> box[1], y |-> box[2],
                          last |-> NoPixel]
              \* the bounding box clamped to the framebuffer
              Clamped(raw) ==
                  Start(<<Max2(raw[1], 0), Max2(raw[2], 0),
                          Min2(raw[3], RasterDim - 1), Min2(raw[4], RasterDim - 1)>>)
              Triangle(points) ==
                  Clamped(GetBox(<<points[1].pos, points[2].pos, points[3].pos>>))
          IN  Triangle(RasterScenes[s])

\* one iteration of the loops over y and x: pixel (rast.x, rast.y). The
\* fragment is colored by NormalDebugShade, which stands where the loop body
\* lights the fragment; the inside test, the weights, the interpolation and
\* the put_pixel call are the loop body's own.
RasterizePixel ==
    /\ rast.status = "scan"
    /\ LET x      == rast.x
           y      == rast.y
           last_x == x = rast.box[3]
           Fragment(points, bary) ==
               [world_pos |-> Weighted(points[1].world_pos, points[2].world_pos,
                                       points[3].world_pos, bary),
                normal    |-> InterpolateNormal(points, bary),
                uv        |-> InterpolateUv(points, bary),
                color     |-> InterpolateColor(points, bary)]
           Opaque(rgb) == Vec4(rgb[1], rgb[2], rgb[3], F1)
           Put(inside, some, color, d, fb) ==
               /\ data' = fb.data
               /\ depth' = fb.depth
               /\ commits' = [i \in DOMAIN commits |->
                                IF data'[i] # data[i] \/ depth'[i] # depth[i]
                                THEN commits[i] + 1 ELSE commits[i]]
               /\ nstored' = IF data' # data \/ depth' # depth
                             THEN nstored + 1 ELSE nstored
               /\ call' = IF inside
                          THEN [op |-> "put", x |-> x, y |-> y, color |-> color,
                                depth |-> d]
                          ELSE call
               /\ ncalls' = IF inside THEN ncalls + 1 ELSE ncalls
               /\ rast' = [rast EXCEPT
                             !.x = IF last_x THEN rast.box[1] ELSE x + 1,
                             !.y = IF last_x THEN y + 1 ELSE y,
                             !.status = IF last_x /\ y = rast.box[4]
                                        THEN "done" ELSE "scan",
                             !.last = IF inside
                                      THEN [x |-> x, y |-> y, inside |-> TRUE,
                                            bary |-> some, shaded |-> TRUE,
                                            put |-> TRUE, color |-> color, depth |-> d]
                                      ELSE [NoPixel EXCEPT !.x = x, !.y = y]]
           Shaded(inside, some, color, d) ==
               Put(inside, some, color, d,
                   IF inside THEN PutPixelBuf(Buf, x, y, color, d) ELSE Buf)
           Covered(points, inside, some, bary) ==
               Shaded(inside, some, Opaque(NormalDebugShade(Fragment(points, bary))),
                      InterpolateDepth(points, bary))
           \* get_barycentric_coords(..).unwrap_or((0.0, 0.0, 0.0))
           Sampled(points, inside, some) ==
               Covered(points, inside, some,
                       IF some = None THEN <<F0, F0, F0>> ELSE some)
           Pixel(points, tri, p) ==
               Sampled(points, IsInsideTriangle(tri, p), GetBarycentricCoords(tri, p))
           Triangle(points) ==
               Pixel(points, <<points[1].pos, points[2].pos, points[3].pos>>,
                     <<Mid(x), Mid(y)>>)
       IN  Triangle(RasterScenes[rast.scene])
    /\ UNCHANGED <<width, height, ssaaOut, clipCall, xfCall, drawCall, parVars,
                   cullCall, shadeCall, postVars>>

SpecRaster == InitRaster /\ [][RasterizePixel]_vars

---------------------------------------------------------------------------
(* Triangle::is_backface_world_space and the loop body of
   Renderer::render_colored_triangles that calls it *)

\* Triangle::new: the face normal is the normalized cross product of two edges
NewTriangle(v0, v1, v2) ==
    LET edge1 == VSub(v1, v0)
        edge2 == VSub(v2, v0)
        cross == <<FSub(FMul(edge1[2], edge2[3]), FMul(edge1[3], edge2[2])),
                   FSub(FMul(edge1[3], edge2[1]), FMul(edge1[1], edge2[3])),
                   FSub(FMul(edge1[1], edge2[2]), FMul(edge1[2], edge2[1]))>>
    IN  [vertices |-> <<v0, v1, v2>>, normal |-> Normalize(cross)]

\* triangles in the plane z = -2 that face +z and -z, a triangle in the plane
\* x = 0, and a slanted one
CullTriangles ==
    LET V(x, y, z) == <<FromInt(x), FromInt(y), FromInt(z)>>
    IN  <<NewTriangle(V(-1, -1, -2), V(1, -1, -2), V(0, 1, -2)),
          NewTriangle(V(-1, -1, -2), V(0, 1, -2), V(1, -1, -2)),
          NewTriangle(V(0, -1, -2), V(0, 1, -2), V(0, 0, -3)),
          NewTriangle(V(-1, 0, -2), V(1, 0, -2), V(0, 1, -3))>>

\* model matrices, as their four columns: a scale along the axes followed by
\* a translation
ModelMatrices ==
    LET M(sx, sy, sz, tz) == << <<FromInt(sx), F0, F0, F0>>,
                                <<F0, FromInt(sy), F0, F0>>,
                                <<F0, F0, FromInt(sz), F0>>,
                                <<F0, F0, FromInt(tz), F1>> >>
    IN  <<M(1, 1, 1, 0), M(1, 1, 1, -4), M(1, 1, 1, 4), M(2, 2, 2, 0), M(2, 1, 1, 0),
          M(0, 1, 1, 0)>>

\* Renderer.camera.eye
CameraEyes ==
    {<<F0, F0, F0>>, <<F0, F0, FromInt(-5)>>, <<F0, F0, FromInt(5)>>,
     <<F3, F0, FromInt(-2)>>}

\* SquareMatrix::invert for a matrix of ModelMatrices: None when the
\* determinant is 0. With scales that are powers of two every product and
\* quotient of the inversion is exact, whatever the order it is computed in.
Invert(m) ==
    LET det == FMul(FMul(m[1][1], m[2][2]), m[3][3])
        Inv(k) == FDiv(F1, m[k][k])
    IN  IF FEq(det, F0) THEN None
        ELSE << <<Inv(1), F0, F0, F0>>,
                <<F0, Inv(2), F0, F0>>,
                <<F0, F0, Inv(3), F0>>,
                <<FNeg(FMul(m[4][1], Inv(1))), FNeg(FMul(m[4][2], Inv(2))),
                  FNeg(FMul(m[4][3], Inv(3))), F1>> >>

\* Triangle::is_backface_world_space: the result, or the panic of unwrap()
IsBackfaceWorldSpace(triangle, camera_pos, model_matrix) ==
    LET Truncate(v4) == <<v4.x, v4.y, v4.z>>
        \* model_matrix.invert().unwrap().transpose()
        normal_matrix(inverse) == [c \in 1 .. 4 |-> [r \in 1 .. 4 |-> inverse[r][c]]]
        world_normal(inverse) ==
            Normalize(Truncate(MatVec(normal_matrix(inverse),
                                      [x |-> triangle.normal[1], y |-> triangle.normal[2],
                                       z |-> triangle.normal[3], w |-> F0])))
        v == triangle.vertices
        \* get_center
        center == [k \in 1 .. 3 |-> FDiv(FAdd(FAdd(v[1][k], v[2][k]), v[3][k]), F3)]
        view_dir ==
            Normalize(VSub(camera_pos, Truncate(MatVec(model_matrix, Extend(center)))))
        Unwrapped(inverse) ==
            IF inverse = None
            THEN [panicked |-> TRUE, backface |-> FALSE]
            ELSE [panicked |-> FALSE,
                  backface |-> FLt(Dot(world_normal(inverse), view_dir), F0)]
    IN  Unwrapped(Invert(model_matrix))

\* a renderer whose camera is at eye, about to draw triangle t with model
\* matrix m
InitCull ==
    /\ FBIdle
    /\ clipCall = NoClip
    /\ xfCall = NoTransform
    /\ drawCall = NoDraw
    /\ ParIdle
    /\ PostIdle
    /\ rast = [status |-> "none"]
    /\ shadeCall = [n |-> 0]
    /\ \E t \in DOMAIN CullTriangles, m \in DOMAIN ModelMatrices, eye \in CameraEyes :
          cullCall = [status |-> "ready", triangle |-> t, model |-> m, eye |-> eye,
                      backface |-> FALSE, downstream |-> FALSE]

\* one iteration of the for loop of render_colored_triangles, up to the
\* calls of transform_colored_vertices and rasterize_colored_triangle
RenderColoredTriangle ==
    /\ cullCall.status = "ready"
    /\ LET Continue(test) ==
               cullCall' = [cullCall EXCEPT
                              !.status = IF test.panicked THEN "panicked" ELSE "returned",
                              !.backface = test.backface,
                              !.downstream = ~test.panicked /\ ~test.backface]
       IN  Continue(IsBackfaceWorldSpace(CullTriangles[cullCall.triangle],
                                         <<F0, F0, F0>>,        \* Vec3::zero()
                                         ModelMatrices[cullCall.model]))
    /\ UNCHANGED <<fbVars, fbHist, ssaaOut, clipCall, xfCall, drawCall, parVars,
                   rast, shadeCall, postVars>>

SpecCull == InitCull /\ [][RenderColoredTriangle]_vars

---------------------------------------------------------------------------
(* renderer/fragment_shader.rs: the implementations of FragmentShader::shade *)

\* the shaders, each with its Light, and the FragmentData they are called
\* with (no texture): a light along -z or along -x, three axis normals and
\* the normal (0.6, 0.8, 0), two
\* colors. The shininess is 32 where the specular term is 0 or 1 and 1
\* elsewhere, the two cases in which powf is exact.
ShadeInputs ==
    LET Light(direction) ==
            [direction |-> direction, color |-> <<F1, F1, F1>>, intensity |-> F1,
             ambient_strength |-> FHalf, ambient_color |-> <<F1, F1, F1>>]
        Material(shininess) ==
            [specular |-> <<F1, F1, F1>>, specular_strength |-> FHalf,
             shininess |-> shininess]
    IN  {[light      |-> Light(d[1]),
          world_pos  |-> <<F0, F0, F0>>,
          normal     |-> n,
          color      |-> c,
          material   |-> Material(d[2]),
          camera_pos |-> <<F0, F0, F2>>] :
            d \in {<<<<F0, F0, FNegOne>>, FromInt(32)>>, <<<<F0, F0, FNegOne>>, F1>>,
                   <<<<FNegOne, F0, F0>>, F1>>},
            n \in {<<F0, F0, F1>>, <<F1, F0, F0>>, <<F0, F1, F0>>,
                   <<<<5033165, -23>>, <<13421773, -24>>, F0>>},     \* (0.6, 0.8, 0)
            c \in {<<F1, FHalf, FQuarter>>, <<FTenth, FTenth, FTenth>>}}

\* mutant of Shade: the toon shader without its middle band (the other
\* shaders are not told apart)
Shade_TwoBands(shader, frag, rnumber) ==
    LET light    == frag.light
        material == frag.material
        Mul(a, b)   == [i \in DOMAIN a |-> FMul(a[i], b[i])]
        Neg(a)      == [i \in DOMAIN a |-> FNeg(a[i])]
        FMax(a, b)  == IF IsNaN(a) THEN b ELSE IF IsNaN(b) THEN a
                       ELSE IF FGt(a, b) THEN a ELSE b
        Clamp(a)    == IF FLt(a, F0) THEN F0 ELSE IF FGt(a, F1) THEN F1 ELSE a
        Powf(x, y)  == IF y = F1 \/ x = F0 \/ x = F1 THEN x ELSE NaN
        ToonDiffuse(lit, diff) ==
            IF FGt(diff, <<5033165, -23>>)                      \* 0.6
            THEN VScale(lit, <<9227469, -23>>)                  \* 1.1
            ELSE VScale(lit, FHalf)
        Specular(neg_light, view_dir) ==
            VScale(VScale(Mul(light.color, material.specular), material.specular_strength),
                   Powf(FMax(Dot(frag.normal, Normalize(VAdd(neg_light, view_dir))), F0),
                        material.shininess))
        Lit(ambient, lit, diff, specular) ==
            [i \in 1 .. 3 |->
                Clamp(Mul(frag.color,
                          VAdd(VAdd(ambient, ToonDiffuse(lit, diff)), specular))[i])]
        Directed(neg_light) ==
            Lit(VScale(light.ambient_color, light.ambient_strength),
                VScale(light.color, light.intensity),
                FMax(Dot(frag.normal, neg_light), F0),
                Specular(neg_light, Normalize(VSub(frag.camera_pos, frag.world_pos))))
    IN  IF shader = "toon" THEN Directed(Neg(Normalize(light.direction)))
        ELSE NormalDebugShade(frag)

\* FragmentShader::shade of the named shader; rnumber is the value that
\* rand::random_range(0..=100) returns inside InkShader::shade
Shade(shader, frag, rnumber) ==
    LET light    == frag.light
        material == frag.material
        Mul(a, b)   == [i \in DOMAIN a |-> FMul(a[i], b[i])]    \* mul_element_wise
        Neg(a)      == [i \in DOMAIN a |-> FNeg(a[i])]
        FMax(a, b)  == IF IsNaN(a) THEN b ELSE IF IsNaN(b) THEN a
                       ELSE IF FGt(a, b) THEN a ELSE b          \* f32::max
        Clamp(a)    == IF FLt(a, F0) THEN F0 ELSE IF FGt(a, F1) THEN F1 ELSE a
        Floor(a)    == IF ~IsFinite(a) \/ a[2] >= 0 THEN a      \* f32::floor
                       ELSE IF 0 - a[2] > 30 THEN (IF a[1] < 0 THEN FNegOne ELSE F0)
                       ELSE Norm((a[1] - (a[1] % (2 ^ (0 - a[2])))) \div (2 ^ (0 - a[2])), 0)
        \* f32::powf, in the cases where its result is exact
        Powf(x, y)  == IF y = F1 \/ x = F0 \/ x = F1 THEN x ELSE NaN
        \* (specular * split_level).floor() / split_level, by component
        Split(v, split_level) ==
            [i \in 1 .. 3 |-> FDiv(Floor(FMul(v[i], split_level)), split_level)]
        Final(c)    == [i \in 1 .. 3 |-> Clamp(c[i])]
        ToonDiffuse(lit, diff) ==
            IF FGt(diff, <<5033165, -23>>)                      \* 0.6
            THEN VScale(lit, <<9227469, -23>>)                  \* 1.1
            ELSE IF FGt(diff, <<13421773, -26>>)                \* 0.2
            THEN VScale(lit, <<13421773, -24>>)                 \* 0.8
            ELSE VScale(lit, FHalf)
        InkDiffuse(lit, diff) ==
            IF FGt(diff, <<13421773, -24>>)                     \* 0.8
            THEN VScale(lit, <<9227469, -23>>)                  \* 1.1
            ELSE IF FGt(diff, <<5033165, -24>>)                 \* 0.3
            THEN VScale(lit, <<5033165, -23>>)                  \* 0.6
            ELSE VScale(lit, <<13421773, -28>>)                 \* 0.05
        Gray(base_color) ==
            FAdd(FAdd(FMul(base_color[1], <<10032775, -25>>),          \* 0.299
                      FMul(base_color[2], <<4924113, -23>>)),          \* 0.587
                 FMul(base_color[3], <<15300821, -27>>))               \* 0.114
        Gray3(gray) == <<gray, gray, gray>>
        \* the match on rnumber
        Speckled(final_color) ==
            IF rnumber \in {0, 1}
            THEN (IF FLt(final_color[1], <<13421773, -26>>)     \* 0.2
                  THEN VScale(final_color, FTenth) ELSE final_color)
            ELSE IF rnumber = 10 THEN VScale(final_color, F2)
            ELSE final_color
        Specular(neg_light, view_dir) ==
            VScale(VScale(Mul(light.color, material.specular), material.specular_strength),
                   Powf(FMax(Dot(frag.normal, Normalize(VAdd(neg_light, view_dir))), F0),
                        material.shininess))
        Lit(ambient, lit, diff, specular) ==
            CASE shader = "toon" ->
                   Final(Mul(frag.color,
                             VAdd(VAdd(ambient, ToonDiffuse(lit, diff)), specular)))
              [] shader = "phong" ->
                   Final(Mul(frag.color,
                             VAdd(VAdd(ambient, VScale(lit, diff)),
                                  Split(specular, <<3, 1>>))))            \* 6.0
              [] shader = "ink" ->
                   Final(Speckled(Mul(Gray3(Gray(frag.color)),
                                      VAdd(VAdd(ambient, InkDiffuse(lit, diff)),
                                           Split(specular, <<1, 2>>)))))  \* 4.0
        Directed(neg_light) ==
            Lit(VScale(light.ambient_color, light.ambient_strength),
                VScale(light.color, light.intensity),
                FMax(Dot(frag.normal, neg_light), F0),
                Specular(neg_light, Normalize(VSub(frag.camera_pos, frag.world_pos))))
    IN  IF shader = "normal_debug" THEN NormalDebugShade(frag)
        ELSE Directed(Neg(Normalize(light.direction)))

InitShade ==
    /\ FBIdle
    /\ clipCall = NoClip
    /\ xfCall = NoTransform
    /\ drawCall = NoDraw
    /\ ParIdle
    /\ PostIdle
    /\ rast = [status |-> "none"]
    /\ cullCall = [status |-> "none"]
    /\ shadeCall = [n |-> 0]

\* a call of shade: the first with any shader and fragment, the second
\* with the shader and the fragment of the first
CallShade(shader, frag, rnumber) ==
    /\ shadeCall.n < 2
    /\ shadeCall.n = 1 => (shader = shadeCall.shader /\ frag = shadeCall.frag)
    /\ shadeCall' = [n |-> shadeCall.n + 1, shader |-> shader, frag |-> frag,
                     out |-> Shade(shader, frag, rnumber),
                     prev |-> IF shadeCall.n = 1 THEN shadeCall.out ELSE << >>]
    /\ UNCHANGED <<fbVars, fbHist, ssaaOut, clipCall, xfCall, drawCall, parVars,
                   rast, cullCall, postVars>>

SpecShade ==
    InitShade /\ [][\E shader \in {"toon", "phong", "normal_debug", "ink"},
                        frag \in ShadeInputs :
                         \E rnumber \in IF shader = "ink" THEN 0 .. 100 ELSE {0} :
                             CallShade(shader, frag, rnumber)]_vars

---------------------------------------------------------------------------
(* Properties of the FrameBuffer calls, checked under Spec *)

\* the arguments of the call a step makes, and the pixel it names
InUnit(d)  == FGe(d, F0) /\ FLe(d, F1)
IsPut(c)   == c.op = "put"
Inside(c)  == c.x < width /\ c.y < height
PixelOf(c) == c.y * width + c.x

\* C1 as stated: once a put_pixel has stored depth d1 at an in-bounds pixel P,
\* a put_pixel on P with depth d2 >= d1 changes neither buffer, and one with
\* any depth d2 < d1 overwrites the color and the depth of P.
C1_AnyNearerDepthOverwrites ==
    [][(IsPut(call') /\ Inside(call') /\ commits[PixelOf(call')] >= 1) =>
          /\ FGe(call'.depth, depth[PixelOf(call')]) =>
                (data' = data /\ depth' = depth)
          /\ FLt(call'.depth, depth[PixelOf(call')]) =>
                /\ data'[PixelOf(call')] = call'.color
                /\ depth'[PixelOf(call')] = call'.depth]_vars

\* C1 amended: once a put_pixel has stored depth d1 at an in-bounds pixel P,
\* a put_pixel on P with depth d2 >= d1 (ties included) changes neither
\* buffer, and one with a depth d2 < d1 that lies in [0, 1] overwrites the
\* color and the depth of P.
C1_DepthTestMonotone ==
    [][(IsPut(call') /\ Inside(call') /\ commits[PixelOf(call')] >= 1) =>
          /\ FGe(call'.depth, depth[PixelOf(call')]) =>
                (data' = data /\ depth' = depth)
          /\ (FLt(call'.depth, depth[PixelOf(call')]) /\ InUnit(call'.depth)) =>
                /\ data'[PixelOf(call')] = call'.color
                /\ depth'[PixelOf(call')] = call'.depth]_vars

\* a second put_pixel on a pixel has overwritten what the first stored
C1_Witness ==
    /\ IsPut(call) /\ Inside(call)
    /\ commits[PixelOf(call)] >= 2
    /\ data[PixelOf(call)] = call.color
    /\ depth[PixelOf(call)] = call.depth

\* C2: every entry of the depth buffer lies in [0, 1] in every reachable
\* state, and a put_pixel whose depth is outside [0, 1] (negative, above
\* one, infinite, NaN) changes neither the color nor the depth buffer.
C2_DepthRangeGate ==
    /\ [](\A i \in DOMAIN depth : InUnit(depth[i]))
    /\ [][(IsPut(call') /\ ~InUnit(call'.depth)) =>
            (data' = data /\ depth' = depth)]_vars

\* an in-bounds put_pixel came with a depth below zero, hence below the
\* stored depth, and the pixel kept a depth in [0, 1]
C2_Witness ==
    /\ IsPut(call) /\ Inside(call)
    /\ ~InUnit(call.depth)
    /\ FLt(call.depth, depth[PixelOf(call)])
    /\ depth[PixelOf(call)] # call.depth

\* C5: a put_pixel with x >= width or y >= height changes neither buffer; an
\* in-bounds put_pixel names an index inside both buffers and changes no
\* entry other than the one at y * width + x.
C5_BoundsChecked ==
    [][IsPut(call') =>
          IF Inside(call')
          THEN /\ PixelOf(call') \in DOMAIN data
               /\ PixelOf(call') \in DOMAIN depth
               /\ \A i \in DOMAIN data \ {PixelOf(call')} :
                     data'[i] = data[i] /\ depth'[i] = depth[i]
          ELSE data' = data /\ depth' = depth]_vars

\* an out-of-bounds put_pixel came with a depth that passes the depth test
\* of the pixel its linear index would alias
C5_Witness ==
    /\ IsPut(call) /\ ~Inside(call)
    /\ PixelOf(call) \in DOMAIN depth
    /\ InUnit(call.depth)
    /\ FLt(call.depth, depth[PixelOf(call)])

\* C6: after clear(color) every color entry is the given color and every
\* depth entry is the far sentinel 1.0, the depth buffer of a fresh buffer.
C6_ClearResets ==
    call.op = "clear" =>
        /\ \A i \in DOMAIN data : data[i] = call.color
        /\ \A i \in DOMAIN depth : depth[i] = F1
        /\ depth = New(width, height).depth

\* clear ran on a buffer that a put_pixel had written
C6_Witness == call.op = "clear" /\ nstored >= 1

---------------------------------------------------------------------------
(* Properties of FrameBuffer::ssaa (under SpecSsaa) *)

SsaaCalled == ssaaOut.status # "none"

SsaaReturned == ssaaOut.status = "returned"

Uniform == \A i \in DOMAIN data : data[i] = data[0]

\* C7: ssaa of a buffer whose every pixel has the same color c returns a
\* buffer whose every pixel has color c, whatever the factor.
C7_UniformStaysUniform ==
    (SsaaCalled /\ Uniform) =>
        /\ SsaaReturned
        /\ \A k \in DOMAIN ssaaOut.fb.data : ssaaOut.fb.data[k] = data[0]

\* the source pixels of the block of output pixel (x, y), in the order
\* fy = 0 .. f-1 (outer), fx = 0 .. f-1 (inner)
BlockPixels(x, y, f) ==
    [k \in 1 .. f * f |-> <<x * f + ((k - 1) % f), y * f + ((k - 1) \div f)>>]

RECURSIVE SumTo(_, _, _)
\* the f32 sum of channel ch over the first k source pixels of pixels
SumTo(pixels, ch, k) ==
    IF k = 0 THEN F0
    ELSE FAdd(SumTo(pixels, ch, k - 1),
              data[pixels[k][2] * width + pixels[k][1]][ch])

\* the f32 mean of channel ch over the block of output pixel (x, y)
MeanOf(x, y, f, ch) ==
    FDiv(SumTo(BlockPixels(x, y, f), ch, f * f), FromInt(f * f))

\* C8: for every factor >= 1, ssaa(factor) returns a buffer of
\* floor(width / factor) x floor(height / factor) pixels; output pixel (x, y)
\* is, channel by channel, the mean (the f32 sum divided by factor * factor)
\* of exactly the factor * factor source pixels (x*factor + fx, y*factor + fy),
\* 0 <= fx, fy < factor, all of which lie inside the source; for factor = 1 the
\* result equals the source buffer, depth included.
C8_BoxFilter ==
    (SsaaCalled /\ ssaaOut.factor >= 1) =>
        SsaaReturned /\
        LET f   == ssaaOut.factor
            out == ssaaOut.fb
        IN  /\ out.width = width \div f
            /\ out.height = height \div f
            /\ DOMAIN out.data = 0 .. (out.width * out.height - 1)
            /\ DOMAIN out.depth = DOMAIN out.data
            /\ \A x \in 0 .. (out.width - 1), y \in 0 .. (out.height - 1) :
                  /\ \A k \in 1 .. f * f :
                        /\ BlockPixels(x, y, f)[k][1] < width
                        /\ BlockPixels(x, y, f)[k][2] < height
                  /\ \A ch \in 1 .. 4 :
                        out.data[y * out.width + x][ch] = MeanOf(x, y, f, ch)
            /\ (f = 1 => out = Buf)

\* a block of at least four pixels that holds both colors was averaged, in a
\* buffer with more than one output pixel
C8_Witness ==
    /\ SsaaReturned
    /\ ssaaOut.factor >= 2
    /\ ssaaOut.fb.width * ssaaOut.fb.height >= 2
    /\ \E k \in DOMAIN ssaaOut.fb.data : ssaaOut.fb.data[k] \notin SsaaColors

---------------------------------------------------------------------------
(* Properties of SimpleClipper::clip_triangle (under SpecClip) *)

AllBehind(t) == \A i \in 1 .. 3 : FLt(t[i].position.w, F0)

\* C9: clip_triangle returns an empty list if and only if all three vertices
\* have w < 0; in every other case it returns exactly one triangle, equal to
\* its argument vertex for vertex in the same order; and the result is decided
\* by the argument alone: whatever the earlier calls were, equal arguments
\* give equal results.
C9_WholeTriangleClip ==
    /\ [](clipCall.n >= 1 =>
            /\ (clipCall.result = << >>) <=> AllBehind(clipCall.triangle)
            /\ ~AllBehind(clipCall.triangle) =>
                  /\ Len(clipCall.result) = 1
                  /\ \A i \in 1 .. 3 :
                        clipCall.result[1][i] = clipCall.triangle[i])
    /\ []((clipCall.n >= 2 /\ clipCall.triangle = clipCall.prevTriangle) =>
            clipCall.result = clipCall.prevResult)

\* a triangle with one vertex behind the camera and one on the camera plane
\* came back whole, right after a triangle that was discarded
C9_Witness ==
    /\ clipCall.n >= 2
    /\ clipCall.prevResult = << >>
    /\ clipCall.result = <<clipCall.triangle>>
    /\ clipCall.triangle[1].position.w = FNegOne
    /\ clipCall.triangle[2].position.w = F0

---------------------------------------------------------------------------
(* Properties of Renderer::transform_colored_vertices (under SpecTransform) *)

\* C10: no vertex whose clip-space w is 0 is passed to the perspective
\* divide: the divide never runs with the divisor 0, and the screen position
\* and depth of every vertex are finite numbers.
C10_DivideGuarded ==
    xfCall.called =>
        \A i \in 1 .. 3 :
            /\ xfCall.clip[i].w = F0 => xfCall.divisor[i] # F0
            /\ IsFinite(xfCall.raster[i].pos[1])
            /\ IsFinite(xfCall.raster[i].pos[2])
            /\ IsFinite(xfCall.raster[i].z)

---------------------------------------------------------------------------
(* Properties of Renderer::render_colored_triangles (under SpecDraw) *)

\* the triangles of the list whose put_pixel on pixel (x, y) has a depth in [0, 1]
WritesOn(x, y) ==
    {i \in 1 .. Len(drawCall.triangles) :
        /\ ~drawCall.triangles[i].backface
        /\ drawCall.triangles[i].cover \in
              {"all"} \cup (IF x = 0 THEN {"left"} ELSE {}) \cup (IF y = 0 THEN {"top"} ELSE {})
        /\ InUnit(drawCall.triangles[i].depth)}

PairwiseDifferent(W) ==
    \A i \in W, j \in W :
        i # j => ~FEq(drawCall.triangles[i].depth, drawCall.triangles[j].depth)

\* C3: after a draw call on a new or cleared buffer, a pixel that two or more
\* triangles of the list wrote with pairwise different depths in [0, 1] holds
\* the color and the depth of the nearest of them, whatever the order of the
\* list.
C3_NearestWinsInAnyOrder ==
    drawCall.done =>
        \A x \in 0 .. (width - 1), y \in 0 .. (height - 1) :
            LET W == WritesOn(x, y)
            IN  (Cardinality(W) >= 2 /\ PairwiseDifferent(W)) =>
                    \E i \in W :
                        /\ \A j \in W : FLe(drawCall.triangles[i].depth,
                                              drawCall.triangles[j].depth)
                        /\ data[y * width + x] = drawCall.triangles[i].color
                        /\ depth[y * width + x] = drawCall.triangles[i].depth

\* the nearer of two overlapping triangles was drawn first and is what the
\* pixel holds
C3_Witness ==
    /\ drawCall.done
    /\ Len(drawCall.triangles) = 2
    /\ WritesOn(0, 0) = {1, 2}
    /\ FLt(drawCall.triangles[1].depth, drawCall.triangles[2].depth)
    /\ data[0] = drawCall.triangles[1].color

---------------------------------------------------------------------------
(* Properties of the concurrent draw call (under SpecPar) *)

\* the color and the depth at pixel k are those of the new buffer, or those
\* of one put_pixel call of the draw call
SamePutPixel(k) ==
    \/ data[k] = Transparent /\ depth[k] = F1
    \/ \E i \in 1 .. Len(drawCall.triangles) :
          /\ data[k] = drawCall.triangles[i].color
          /\ depth[k] = drawCall.triangles[i].depth

---------------------------------------------------------------------------
(* Properties of Renderer::rasterize_colored_triangle (under SpecRaster) *)

\* the screen positions of the triangle being rasterized
ScenePositions ==
    LET points == RasterScenes[rast.scene]
    IN  <<points[1].pos, points[2].pos, points[3].pos>>

\* a in eighths, for a coordinate that is a multiple of 1/8
Eighths(a) == a[1] * (2 ^ (a[2] + 3))

\* the three positions lie on one line, decided exactly for positions whose
\* coordinates are multiples of 1/8 (positions on a finer grid are taken not
\* to be collinear: no triangle of RasterScenes on a finer grid is)
Collinear(tri) ==
    /\ \A i \in 1 .. 3, k \in 1 .. 2 : tri[i][k][1] = 0 \/ tri[i][k][2] >= 0 - 3
    /\ (Eighths(tri[2][1]) - Eighths(tri[1][1])) * (Eighths(tri[3][2]) - Eighths(tri[1][2]))
       = (Eighths(tri[2][2]) - Eighths(tri[1][2])) * (Eighths(tri[3][1]) - Eighths(tri[1][1]))

\* the framebuffer is as FrameBuffer::new left it
Untouched == data = New(width, height).data /\ depth = New(width, height).depth

\* C12: rasterizing a triangle whose three screen positions are collinear
\* writes no pixel: the color and depth buffers stay as they were
C12_DegenerateWritesNothing ==
    (rast.status # "none" /\ Collinear(ScenePositions)) => (Untouched /\ nstored = 0)

\* the sample point of the last loop iteration: the centre of its pixel
LastPoint == <<Mid(rast.last.x), Mid(rast.last.y)>>

\* a loop iteration has run on a triangle that is not degenerate
SampledNonDegenerate ==
    rast.status # "none" /\ rast.last.x >= 0 /\ ~Collinear(ScenePositions)

\* the weights the barycentric solve gives for the last sample point
LastWeights == GetBarycentricCoords(ScenePositions, LastPoint)

\* a in units of 2^-30, rounded down (for |a| < 2)
Fixed30(a) ==
    IF a[2] >= 0 - 30 THEN a[1] * (2 ^ (a[2] + 30))
    ELSE IF 0 - 30 - a[2] > 30 THEN (IF a[1] < 0 THEN 0 - 1 ELSE 0)
    ELSE (a[1] - (a[1] % (2 ^ (0 - 30 - a[2])))) \div (2 ^ (0 - 30 - a[2]))

\* the number of weights with bits below 2^-30, which Fixed30 rounds
Inexact30(b) == Cardinality({i \in 1 .. 3 : b[i][1] # 0 /\ b[i][2] < 0 - 30})

\* |b[1] + b[2] + b[3] - 1| in units of 2^-30, up to Inexact30(b) units
SumError30(b) == Abs(Fixed30(b[1]) + Fixed30(b[2]) + Fixed30(b[3]) - 2 ^ 30)

SomeNegative(b) == \E i \in 1 .. 3 : FLt(b[i], F0)

\* C13 as stated: inside a non-degenerate triangle every weight is in [0, 1]
\* and the weights sum to 1; outside at least one weight is negative
C13_WeightsExact ==
    (SampledNonDegenerate /\ LastWeights # None) =>
        IF rast.last.inside
        THEN /\ \A i \in 1 .. 3 : FGe(LastWeights[i], F0) /\ FLe(LastWeights[i], F1)
             /\ SumError30(LastWeights) <= Inexact30(LastWeights)
        ELSE SomeNegative(LastWeights)

WeightEps == <<1, 0 - 20>>              \* 2^-20, about 1e-6

\* C13: for a point that passes the inside test of a non-degenerate triangle
\* every weight is in [0, 1] and the weights sum to 1, both up to 2^-20; for
\* a point that fails it at least one weight is negative or below 2^-20
C13_WeightsWithinEpsilon ==
    (SampledNonDegenerate /\ LastWeights # None) =>
        IF rast.last.inside
        THEN /\ \A i \in 1 .. 3 : /\ FGe(LastWeights[i], FNeg(WeightEps))
                                  /\ FLe(LastWeights[i], FAdd(F1, WeightEps))
             /\ SumError30(LastWeights) + Inexact30(LastWeights) <= 2 ^ 10
        ELSE \E i \in 1 .. 3 : FLt(LastWeights[i], WeightEps)

\* a pixel centre on an edge of a non-degenerate triangle passes the inside
\* test and gets a weight just below zero
C13_Witness ==
    /\ SampledNonDegenerate
    /\ rast.last.inside
    /\ rast.last.bary # None
    /\ SomeNegative(rast.last.bary)

\* C14: once the triangle (0,0), (10,0), (0,10) with depth 0.5 and normals
\* (0,0,1) is rasterized with the normal-debug shader on a cleared buffer, every
\* pixel whose centre lies in the triangle holds color (0.5, 0.5, 1.0) and
\* depth 0.5, and every other pixel holds its cleared value
C14_NormalDebugScenario ==
    (rast.status = "done" /\ rast.scene = 1) =>
        \A x \in 0 .. width - 1, y \in 0 .. height - 1 :
            LET idx == y * width + x
            IN  IF (2 * x + 1) + (2 * y + 1) <= 2 * 10
                THEN /\ data[idx] = Vec4(FHalf, FHalf, F1, F1)
                     /\ depth[idx] = FHalf
                ELSE /\ data[idx] = Transparent
                     /\ depth[idx] = FarDepth

\* C18: the shading computation runs and put_pixel is called only for a pixel
\* whose centre passes the inside test and whose barycentric solve succeeds
C18_ShadingOnlyWhenSolved ==
    (rast.status # "none" /\ (rast.last.shaded \/ rast.last.put)) =>
        (rast.last.inside /\ rast.last.bary # None)

\* the vertex of the triangle being rasterized that the last sample point
\* coincides with, or 0
VertexAtLastPoint ==
    IF \E i \in 1 .. 3 : ScenePositions[i] = LastPoint
    THEN CHOOSE i \in 1 .. 3 : ScenePositions[i] = LastPoint
    ELSE 0

\* the attributes interpolated for the last sample point
LastFragment ==
    LET points == RasterScenes[rast.scene]
        bary   == rast.last.bary
    IN  [world_pos |-> Weighted(points[1].world_pos, points[2].world_pos,
                                points[3].world_pos, bary),
         normal    |-> InterpolateNormal(points, bary),
         uv        |-> InterpolateUv(points, bary),
         color     |-> InterpolateColor(points, bary),
         z         |-> InterpolateDepth(points, bary)]

\* a sample point on a vertex of a non-degenerate triangle was solved
SolvedAtVertex ==
    /\ SampledNonDegenerate
    /\ rast.last.inside
    /\ rast.last.bary # None
    /\ VertexAtLastPoint # 0

C20_WindingSymmetric ==
    (rast.status # "none" /\ rast.last.x >= 0) =>
        LET tri == ScenePositions
        IN  IsInsideTriangle(tri, LastPoint)
            = IsInsideTriangle(<<tri[1], tri[3], tri[2]>>, LastPoint)

---------------------------------------------------------------------------
(* Properties of the backface test of a draw call (under SpecCull) *)

\* the integer an f32 of integer value stands for
IntOf(a) == IF a[2] >= 0 THEN a[1] * (2 ^ a[2]) ELSE 0

\* the sign of dot(eye - centroid_world, world_normal) in exact arithmetic,
\* for the triangle and the (invertible) model matrix of the call and a
\* camera at eye: three times the view vector is 3 * eye minus the sum of
\* the world-space vertices, and the world normal has the direction of the
\* cross product of two edges multiplied by the inverse scale
ExactFacing(eye) ==
    LET v  == CullTriangles[cullCall.triangle].vertices
        m  == ModelMatrices[cullCall.model]
        P(i, k)  == IntOf(v[i][k])
        S(k)     == IntOf(m[k][k])
        E1(k)    == P(2, k) - P(1, k)
        E2(k)    == P(3, k) - P(1, k)
        N(k)     == IF k = 1 THEN E1(2) * E2(3) - E1(3) * E2(2)
                    ELSE IF k = 2 THEN E1(3) * E2(1) - E1(1) * E2(3)
                    ELSE E1(1) * E2(2) - E1(2) * E2(1)
        Others(k) == IF k = 1 THEN S(2) * S(3) ELSE IF k = 2 THEN S(1) * S(3)
                     ELSE S(1) * S(2)
        View3(k) == 3 * IntOf(eye[k])
                    - (S(k) * (P(1, k) + P(2, k) + P(3, k)) + 3 * IntOf(m[4][k]))
    IN  Sgn(S(1) * S(2) * S(3))
        * Sgn(View3(1) * N(1) * Others(1) + View3(2) * N(2) * Others(2)
              + View3(3) * N(3) * Others(3))

\* the draw call has tested a triangle under an invertible model matrix
BackfaceTested == cullCall.status = "returned"

\* C11: with the camera at the origin, a triangle with
\* dot(view_dir, normal) <= 0, the edge-on case included, is discarded before
\* the downstream stages and nothing is written to the framebuffer
C11_EdgeOnCulled ==
    (BackfaceTested /\ cullCall.eye = <<F0, F0, F0>> /\ ExactFacing(cullCall.eye) <= 0)
        => (~cullCall.downstream /\ nstored = 0)

\* C15: the draw call runs to completion for every triangle and model matrix:
\* no iteration of its loop panics
C15_DrawNeverAborts == cullCall.status # "panicked"

\* C17: for a camera at any eye position e the triangle is culled exactly
\* according to the sign of dot(e - centroid_world, world_normal): discarded
\* when it is negative, passed downstream when it is positive
C17_ViewVectorFromEye ==
    BackfaceTested =>
        /\ ExactFacing(cullCall.eye) < 0 => ~cullCall.downstream
        /\ ExactFacing(cullCall.eye) > 0 => cullCall.downstream

---------------------------------------------------------------------------
(* Properties of FragmentShader::shade (under SpecShade) *)

\* C16: two invocations of a shader with identical fragment data and light
\* return identical colors
C16_ShadingDeterministic ==
    shadeCall.n = 2 => shadeCall.out = shadeCall.prev

---------------------------------------------------------------------------
(* The pixels a triangle's rasterization reaches (under SpecRaster) *)

\* floor and ceiling of a finite f32 value, as integers
FloorOf(a) == IF a[2] >= 0 THEN a[1] * (2 ^ a[2]) ELSE a[1] \div (2 ^ (0 - a[2]))
CeilOf(a)  == 0 - FloorOf(<<0 - a[1], a[2]>>)

\* the box [floor(min), ceil(max)] of the three positions
LeastOf(S)    == CHOOSE n \in S : \A m \in S : n <= m
GreatestOf(S) == CHOOSE n \in S : \A m \in S : n >= m
BoxLow(k)  == LeastOf({FloorOf(ScenePositions[i][k]) : i \in 1 .. 3})
BoxHigh(k) == GreatestOf({CeilOf(ScenePositions[i][k]) : i \in 1 .. 3})

\* pixel (x, y) is in that box and in the framebuffer
InClampedBox(x, y) ==
    /\ BoxLow(1) <= x /\ x <= BoxHigh(1) /\ 0 <= x /\ x < width
    /\ BoxLow(2) <= y /\ y <= BoxHigh(2) /\ 0 <= y /\ y < height

\* C21: every pixel sampled and every pixel passed to put_pixel lies in the
\* bounding box [floor(min), ceil(max)] of the three positions intersected
\* with the framebuffer, and every pixel outside it is as it was
C21_StaysInClampedBox ==
    rast.status # "none" =>
        /\ rast.last.x >= 0 => InClampedBox(rast.last.x, rast.last.y)
        /\ call.op = "put" => InClampedBox(call.x, call.y)
        /\ \A x \in 0 .. width - 1, y \in 0 .. height - 1 :
              ~InClampedBox(x, y) =>
                  /\ data[y * width + x] = Transparent
                  /\ depth[y * width + x] = FarDepth

\* the partly off-screen triangle has been rasterized and has written pixels
C21_Witness ==
    /\ rast.status = "done" /\ rast.scene = 9
    /\ BoxLow(1) < 0 /\ BoxHigh(2) >= height
    /\ \E i \in DOMAIN data : data[i] # Transparent

---------------------------------------------------------------------------
(* The viewport mapping of transform_colored_vertices (under SpecTransform) *)

\* a in units of 2^-24, rounded down (for |a| <= 8)
Fixed24(a) ==
    IF a[2] >= 0 - 24 THEN a[1] * (2 ^ (a[2] + 24))
    ELSE IF 0 - 24 - a[2] > 30 THEN (IF a[1] < 0 THEN 0 - 1 ELSE 0)
    ELSE a[1] \div (2 ^ (0 - 24 - a[2]))

\* a finite value of magnitude at most 8
Small(a) == IsFinite(a) /\ (a[1] = 0 \/ (BitLen(Abs(a[1])) + a[2] <= 3))

\* a and the exact value n / 2^24 differ by at most 2^-18
Near24(a, n) == IsFinite(a) /\ Abs(Fixed24(a) - n) <= 2 ^ 6

\* the NDC position of vertex i of the transformed triangle
NdcOf(i) == DivByW(xfCall.clip[i])

\* C22: NDC x in [-1, 1] goes linearly onto [0, w], NDC y onto [h, 0] with
\* the axis flipped (+1 on row 0), NDC z onto the depth (z + 1) * 0.5; the
\* end points -1 and +1 are mapped exactly
C22_ViewportMapping ==
    xfCall.called =>
        \A i \in 1 .. 3 :
            LET ndc == NdcOf(i)
                out == xfCall.raster[i]
            IN  /\ Small(ndc.x) =>
                       Near24(out.pos[1], ((Fixed24(ndc.x) + 2 ^ 24) * ViewportW) \div 2)
                /\ Small(ndc.y) =>
                       Near24(out.pos[2],
                              ViewportH * (2 ^ 24)
                              - ((Fixed24(ndc.y) + 2 ^ 24) * ViewportH) \div 2)
                /\ Small(ndc.z) => Near24(out.z, (Fixed24(ndc.z) + 2 ^ 24) \div 2)
                /\ ndc.x = FNegOne => out.pos[1] = F0
                /\ ndc.x = F1 => out.pos[1] = FromInt(ViewportW)
                /\ ndc.y = F1 => out.pos[2] = F0
                /\ ndc.y = FNegOne => out.pos[2] = FromInt(ViewportH)
                /\ ndc.z = FNegOne => out.z = F0
                /\ ndc.z = F1 => out.z = F1
                /\ \A j \in 1 .. 3 :
                      (Small(ndc.y) /\ Small(NdcOf(j).y) /\ FLt(ndc.y, NdcOf(j).y))
                          => FGe(out.pos[2], xfCall.raster[j].pos[2])

\* a triangle with a vertex on the top edge of the NDC square, one on the
\* bottom edge and one at the far plane has been transformed
C22_Witness ==
    /\ xfCall.called
    /\ NdcOf(1).y = F1 /\ NdcOf(1).x = FNegOne /\ xfCall.raster[1].pos = <<F0, F0>>
    /\ NdcOf(2).y = FNegOne /\ NdcOf(2).x = F1
    /\ NdcOf(3).z = F1 /\ xfCall.raster[3].z = F1

---------------------------------------------------------------------------
(* The toon shader (under SpecShade) *)

\* a call of the toon shader has returned
ToonShaded == shadeCall.n > 0 /\ shadeCall.shader = "toon"

\* diff = max(0, dot(normal, -light_dir)) of the last call
ToonDiff ==
    LET l == Normalize(shadeCall.frag.light.direction)
        d == Dot(shadeCall.frag.normal, <<FNeg(l[1]), FNeg(l[2]), FNeg(l[3])>>)
    IN  IF FGt(d, F0) THEN d ELSE F0

\* the weight of the band diff falls in: bright above 0.6, middle above 0.2
\* and up to 0.6, dark otherwise
ToonBand ==
    IF FGt(ToonDiff, <<5033165, -23>>) THEN <<9227469, -23>>            \* 1.1
    ELSE IF FGt(ToonDiff, <<13421773, -26>>) /\ FLe(ToonDiff, <<5033165, -23>>)
         THEN <<13421773, -24>>                                        \* 0.8
    ELSE FHalf

\* the specular term of the last call
ToonSpecular ==
    LET f == shadeCall.frag
        l == Normalize(f.light.direction)
        h == Normalize(VAdd(<<FNeg(l[1]), FNeg(l[2]), FNeg(l[3])>>,
                            Normalize(VSub(f.camera_pos, f.world_pos))))
        c == Dot(f.normal, h)
        \* c ^ shininess for the bases and exponents of ShadeInputs
        s == IF ~FGt(c, F0) THEN F0 ELSE c
    IN  [i \in 1 .. 3 |->
            FMul(FMul(FMul(f.light.color[i], f.material.specular[i]),
                      f.material.specular_strength), s)]

\* channel i of base color * (ambient + diffuse + specular), before clamping
ToonLit(i) ==
    LET f == shadeCall.frag
    IN  FMul(f.color[i],
             FAdd(FAdd(FMul(f.light.ambient_color[i], f.light.ambient_strength),
                       FMul(FMul(f.light.color[i], f.light.intensity), ToonBand)),
                  ToonSpecular[i]))

\* C23: the toon shader returns base color * (ambient + diffuse + specular)
\* with the diffuse weight of the band of diff and every channel clamped to
\* [0, 1]
C23_ToonBands ==
    ToonShaded =>
        \A i \in 1 .. 3 :
            /\ FGe(shadeCall.out[i], F0) /\ FLe(shadeCall.out[i], F1)
            /\ shadeCall.out[i] = IF FGt(ToonLit(i), F1) THEN F1
                                  ELSE IF FLt(ToonLit(i), F0) THEN F0
                                  ELSE ToonLit(i)

\* a call with diff exactly 0.6, the upper end of the middle band
C23_Witness ==
    /\ ToonShaded
    /\ ToonDiff = <<5033165, -23>>
    /\ ToonBand = <<13421773, -24>>
    /\ \E i \in 1 .. 3 : FGt(ToonLit(i), F1) /\ shadeCall.out[i] = F1

---------------------------------------------------------------------------
(* texture.rs: Texture::sample *)

MaxTexDim == 3      \* largest texture width and height

\* Texture::from_file of a w x h image whose pixel (x, y) is the RGBA bytes
\* (51 x, 51 y, 255, 255): row-major data, a texel kept as the four bytes of
\* its u32, most significant first
FromFile(w, h) ==
    [width |-> w, height |-> h,
     data |-> [i \in 1 .. w * h |-> <<51 * ((i - 1) % w), 51 * ((i - 1) \div w), 255, 255>>]]

\* the uv coordinates sampled: 0, 0.1, 0.25, 0.5, 0.75, 1 - 2^-24, 1, 1.25,
\* 2.5, -0.25, -1.5, infinity and NaN
SampleCoords ==
    {F0, FTenth, FQuarter, FHalf, <<3, -2>>, <<16777215, -24>>, F1, <<5, -2>>, <<5, -1>>,
     <<-1, -2>>, <<-3, -1>>, PosInf, NaN}

\* sample choosing the row from v itself instead of 1 - v
Sample_Unflipped(self, uv) ==
    LET \* f32::trunc and f32::fract (self - self.trunc(), which keeps the sign)
        trunc(a) ==
            IF ~IsFinite(a) THEN a
            ELSE IF a[2] >= 0 THEN a
            ELSE IF 0 - a[2] >= SigBits THEN F0
            ELSE Norm(Sgn(a[1]) * (Abs(a[1]) \div (2 ^ (0 - a[2]))), 0)
        fract(a) == FSub(a, trunc(a))
        \* `(a as usize).min(hi)`: the cast truncates, and saturates to 0 for
        \* NaN and negative values and to usize::MAX for values too large
        cast_min(a, hi) ==
            IF IsNaN(a) \/ a[1] <= 0 THEN 0
            ELSE IF FGe(a, FromInt(hi)) THEN hi
            ELSE trunc(a)[1] * (2 ^ trunc(a)[2])
        \* get_pixel_color
        channel(byte) == FDiv(FromInt(byte), FromInt(255))
        Read(x, y, color) ==
            [x |-> x, y |-> y, index |-> y * self.width + x,
             color |-> <<channel(color[1]), channel(color[2]), channel(color[3])>>]
        Texel(x, y) == Read(x, y, self.data[y * self.width + x + 1])
        Wrapped(u, v) ==
            Texel(cast_min(FMul(u, FromInt(self.width)), self.width - 1),
                  cast_min(FMul(v, FromInt(self.height)), self.height - 1))
    IN  Wrapped(fract(uv[1]), fract(uv[2]))

\* Texture::sample: the column, the row and the index of the texel read, and
\* the color returned
Sample(self, uv) ==
    LET \* f32::trunc and f32::fract (self - self.trunc(), which keeps the sign)
        trunc(a) ==
            IF ~IsFinite(a) THEN a
            ELSE IF a[2] >= 0 THEN a
            ELSE IF 0 - a[2] >= SigBits THEN F0
            ELSE Norm(Sgn(a[1]) * (Abs(a[1]) \div (2 ^ (0 - a[2]))), 0)
        fract(a) == FSub(a, trunc(a))
        \* `(a as usize).min(hi)`: the cast truncates, and saturates to 0 for
        \* NaN and negative values and to usize::MAX for values too large
        cast_min(a, hi) ==
            IF IsNaN(a) \/ a[1] <= 0 THEN 0
            ELSE IF FGe(a, FromInt(hi)) THEN hi
            ELSE trunc(a)[1] * (2 ^ trunc(a)[2])
        \* get_pixel_color
        channel(byte) == FDiv(FromInt(byte), FromInt(255))
        Read(x, y, color) ==
            [x |-> x, y |-> y, index |-> y * self.width + x,
             color |-> <<channel(color[1]), channel(color[2]), channel(color[3])>>]
        Texel(x, y) == Read(x, y, self.data[y * self.width + x + 1])
        Wrapped(u, v) ==
            Texel(cast_min(FMul(u, FromInt(self.width)), self.width - 1),
                  cast_min(FMul(FSub(F1, v), FromInt(self.height)), self.height - 1))
    IN  Wrapped(fract(uv[1]), fract(uv[2]))

\* a texture of at least one texel, not sampled yet
InitTexture ==
    /\ FBIdle
    /\ clipCall = NoClip
    /\ xfCall = NoTransform
    /\ drawCall = NoDraw
    /\ ParIdle
    /\ rast = [status |-> "none"]
    /\ cullCall = [status |-> "none"]
    /\ shadeCall = [n |-> 0]
    /\ filterRun = [status |-> "none"]
    /\ lineRun = [status |-> "none"]
    /\ \E w \in 1 .. MaxTexDim, h \in 1 .. MaxTexDim :
          texCall = [status |-> "ready", texture |-> FromFile(w, h)]

\* a call of sample on the texture
CallSample(uv) ==
    /\ texCall.status = "ready"
    /\ texCall' = [status |-> "sampled", texture |-> texCall.texture, uv |-> uv,
                   out |-> Sample(texCall.texture, uv)]
    /\ UNCHANGED <<fbVars, fbHist, ssaaOut, clipCall, xfCall, drawCall, parVars,
                   rast, cullCall, shadeCall, filterRun, lineRun>>

SpecTexture ==
    InitTexture /\ [][\E u \in SampleCoords, v \in SampleCoords : CallSample(<<u, v>>)]_vars

---------------------------------------------------------------------------
(* The texel a sample reads (under SpecTexture) *)

\* a finite value of magnitude below 4, in units of 2^-27
Fixed27(a) == IF a[2] >= 0 - 27 THEN a[1] * (2 ^ (a[2] + 27)) ELSE a[1] \div (2 ^ (0 - 27 - a[2]))

\* the fractional part of n / 2^27 with the sign of n, in units of 2^-27
Frac27(n) == IF n >= 0 THEN n % (2 ^ 27) ELSE 0 - ((0 - n) % (2 ^ 27))

\* n clamped to lo .. hi
ClampTo(n, lo, hi) == IF n < lo THEN lo ELSE IF n > hi THEN hi ELSE n

\* the column floor(frac(u) * w) and the row floor((1 - frac(v)) * h),
\* both clamped into the texture
ColumnOf(u, w) == ClampTo((Frac27(Fixed27(u)) * w) \div (2 ^ 27), 0, w - 1)
RowOf(v, h)    == ClampTo(((2 ^ 27 - Frac27(Fixed27(v))) * h) \div (2 ^ 27), 0, h - 1)

\* C24: sample reads a texel inside the texture for every uv (negative,
\* above 1, infinite or NaN); the texel depends on the fractional parts of u
\* and v only, with the V axis flipped, and uv = (0, 0) reads column 0 of the
\* bottom row height - 1
C24_TexelInside ==
    texCall.status = "sampled" =>
        LET w == texCall.texture.width
            h == texCall.texture.height
            o == texCall.out
        IN  /\ o.x \in 0 .. w - 1
            /\ o.y \in 0 .. h - 1
            /\ o.index = o.y * w + o.x
            /\ o.index \in 0 .. w * h - 1
            /\ o.color = <<FDiv(FromInt(51 * o.x), FromInt(255)),
                           FDiv(FromInt(51 * o.y), FromInt(255)), F1>>
            /\ texCall.uv = <<F0, F0>> => o.x = 0 /\ o.y = h - 1
            /\ IsFinite(texCall.uv[1]) => o.x = ColumnOf(texCall.uv[1], w)
            /\ IsFinite(texCall.uv[2]) => o.y = RowOf(texCall.uv[2], h)

\* uv = (0, 0) sampled on a texture of more than one row and column
C24_Witness ==
    /\ texCall.status = "sampled"
    /\ texCall.uv = <<F0, F0>>
    /\ texCall.texture.width > 1
    /\ texCall.texture.height > 1
    /\ texCall.out.x = 0
    /\ texCall.out.y = texCall.texture.height - 1

---------------------------------------------------------------------------
(* renderer.rs: the depth outline filters draw_depth_outline and
   draw_depth_outline_prewitt, one loop iteration per step *)

FilterDim    == 5   \* width and height of the framebuffer a filter runs on
MaxLineWidth == 2   \* largest line_width
MaxWrites    == 1   \* most put_pixel calls of another writer during one filter run

F32Max    == <<16777215, 104>>      \* f32::MAX
FMillionth == <<8796093, -43>>      \* 1e-6f32 = 0x358637BD
BLACK     == Vec4(F0, F0, F0, F1)   \* 0xFF000000: A = FF, R = G = B = 00

\* the depth buffers the filters run on, pixel (x, y) at index y * FilterDim + x:
\* a cleared buffer; a surface of depth 0.5 and one of depth 0.1 over the whole
\* buffer; a square of depth 0.5 in the middle; one pixel of depth 0.5 at
\* (1, 1); a surface of depth 0.25 left of a surface of depth 0.5
FilterScenes ==
    LET X(i) == i % FilterDim
        Y(i) == i \div FilterDim
        Scene(D(_, _)) == [i \in Indices(FilterDim, FilterDim) |-> D(X(i), Y(i))]
        Cleared(x, y) == FarDepth
        Flat(x, y)    == FHalf
        Tenth(x, y)   == FTenth
        Square(x, y)  ==
            IF x \in 1 .. FilterDim - 2 /\ y \in 1 .. FilterDim - 2 THEN FHalf ELSE FarDepth
        Single(x, y)  == IF x = 1 /\ y = 1 THEN FHalf ELSE FarDepth
        Step(x, y)    == IF 2 * x < FilterDim THEN FQuarter ELSE FHalf
    IN  <<Scene(Cleared), Scene(Flat), Scene(Tenth), Scene(Square), Scene(Single), Scene(Step)>>

FilterThresholds == {F0, FTenth, FHalf}

\* the test of draw_depth_outline_prewitt on pixel (x, y) of the snapshot:
\* not background, and |gx| + |gy| > threshold for the 3x3 Prewitt kernels
PrewittEdge(depth_buffer, w, x, y, threshold) ==
    LET abs(a) == IF IsNaN(a) THEN NaN ELSE <<Abs(a[1]), a[2]>>
        prewitt_x == <<<<-1, 0, 1>>, <<-1, 0, 1>>, <<-1, 0, 1>>>>
        prewitt_y == <<<<-1, -1, -1>>, <<0, 0, 0>>, <<1, 1, 1>>>>
        depth_matrix(ny, nx) == depth_buffer[ny * w + nx]
        \* the body of the loops over ky and kx
        Tap(g, ky, kx) ==
            <<FAdd(g[1], FMul(FromInt(prewitt_x[ky + 1][kx + 1]),
                              depth_matrix(y + ky - 1, x + kx - 1))),
              FAdd(g[2], FMul(FromInt(prewitt_y[ky + 1][kx + 1]),
                              depth_matrix(y + ky - 1, x + kx - 1)))>>
        RECURSIVE Convolve(_, _)
        Convolve(k, g) ==
            IF k = 9 THEN g ELSE Convolve(k + 1, Tap(g, k \div 3, k % 3))
        Exceeds(g) == FGt(FAdd(abs(g[1]), abs(g[2])), threshold)
    IN  /\ ~FLt(abs(FSub(depth_matrix(y, x), F1)), FMillionth)
        /\ Exceeds(Convolve(0, <<F0, F0>>))

\* the test of draw_depth_outline on pixel (x, y) of the snapshot: depth below
\* f32::MAX, and a neighbour at distance 1 .. line_width to the right, left,
\* bottom or top whose depth differs by more than the threshold
DepthEdge(depth_buffer, w, x, y, line_width, threshold) ==
    LET abs(a) == IF IsNaN(a) THEN NaN ELSE <<Abs(a[1]), a[2]>>
        Differs(current_depth, idx) ==
            FGt(abs(FSub(current_depth, depth_buffer[idx])), threshold)
        Outline(current_depth, idx) ==
            \E i \in 1 .. line_width :
                \/ Differs(current_depth, idx + i)
                \/ Differs(current_depth, idx - i)
                \/ Differs(current_depth, (y + i) * w + x)
                \/ Differs(current_depth, (y - i) * w + x)
    IN  /\ ~FGe(depth_buffer[y * w + x], F32Max)
        /\ Outline(depth_buffer[y * w + x], y * w + x)

\* the border the pixel loops of a filter leave out on every side
Border(kind, line_width) == IF kind = "prewitt" THEN 1 ELSE line_width

\* a drawn framebuffer, and a filter about to be called on it
InitFilter ==
    /\ width = FilterDim
    /\ height = FilterDim
    /\ data = [i \in Indices(FilterDim, FilterDim) |-> Blue]
    /\ commits = [i \in Indices(FilterDim, FilterDim) |-> 0]
    /\ call = NoCall
    /\ nstored = 0
    /\ ncalls = 0
    /\ ssaaOut = NoSsaa
    /\ clipCall = NoClip
    /\ xfCall = NoTransform
    /\ drawCall = NoDraw
    /\ ParIdle
    /\ rast = [status |-> "none"]
    /\ cullCall = [status |-> "none"]
    /\ shadeCall = [n |-> 0]
    /\ texCall = [status |-> "none"]
    /\ lineRun = [status |-> "none"]
    /\ \E s \in 1 .. Len(FilterScenes) : depth = FilterScenes[s]
    /\ \E kind \in {"prewitt", "depth"}, line_width \in 1 .. MaxLineWidth,
          threshold \in FilterThresholds :
          filterRun = [status |-> "ready", kind |-> kind, line_width |-> line_width,
                       threshold |-> threshold, writes |-> 0]

\* the position after pixel (x, y) of the loops over lo .. hi_y and lo .. hi_x
NextPosition(run, x, y, lo, hi_x, hi_y) ==
    IF x < hi_x THEN [run EXCEPT !.x = x + 1]
    ELSE IF y < hi_y THEN [run EXCEPT !.x = lo, !.y = y + 1]
    ELSE [run EXCEPT !.status = IF run.kind = "prewitt" /\ run.marks # << >>
                                THEN "stamp" ELSE "done"]

\* the filter is entered: the depth buffer is cloned and the pixel loops start
\* (`height - border` underflows when the buffer is smaller than the border)
StartFilter ==
    /\ filterRun.status = "ready"
    /\ LET Enter(lo, hi_x, hi_y) ==
               filterRun' =
                   IF hi_x < 0 - 1 \/ hi_y < 0 - 1
                   THEN [filterRun EXCEPT !.status = "panic"]
                   ELSE [status |-> IF lo <= hi_x /\ lo <= hi_y THEN "scan" ELSE "done",
                         kind |-> filterRun.kind, line_width |-> filterRun.line_width,
                         threshold |-> filterRun.threshold, writes |-> filterRun.writes,
                         depth_buffer |-> depth, x |-> lo, y |-> lo,
                         visited |-> {}, marks |-> << >>, k |-> 1]
       IN  Enter(Border(filterRun.kind, filterRun.line_width),
                 width - Border(filterRun.kind, filterRun.line_width) - 1,
                 height - Border(filterRun.kind, filterRun.line_width) - 1)
    /\ UNCHANGED <<fbVars, fbHist, ssaaOut, clipCall, xfCall, drawCall, parVars,
                   rast, cullCall, shadeCall, texCall, lineRun>>

\* mutant of ScanPixel: the pixel is tested on the framebuffer's depth buffer
\* as it is at this step, not on the snapshot
ScanPixel_Live ==
    /\ filterRun.status = "scan"
    /\ LET Step(run, edge, border) ==
               /\ filterRun' =
                      NextPosition([run EXCEPT !.visited = @ \cup {<<run.x, run.y>>},
                                               !.marks = IF edge THEN Append(@, <<run.x, run.y>>)
                                                         ELSE @],
                                   run.x, run.y, border,
                                   width - border - 1, height - border - 1)
               /\ data' = IF edge /\ run.kind = "depth"
                          THEN [data EXCEPT ![run.y * width + run.x] = BLACK]
                          ELSE data
       IN  Step(filterRun,
                IF filterRun.kind = "prewitt"
                THEN PrewittEdge(depth, width, filterRun.x, filterRun.y,
                                 filterRun.threshold)
                ELSE DepthEdge(depth, width, filterRun.x, filterRun.y,
                               filterRun.line_width, filterRun.threshold),
                Border(filterRun.kind, filterRun.line_width))
    /\ UNCHANGED <<width, height, depth, fbHist, ssaaOut, clipCall, xfCall, drawCall, parVars,
                   rast, cullCall, shadeCall, texCall, lineRun>>

\* one iteration of the pixel loops: the pixel is tested on the snapshot;
\* draw_depth_outline_prewitt pushes an edge pixel on outline_pixels,
\* draw_depth_outline writes it at once
ScanPixel ==
    /\ filterRun.status = "scan"
    /\ LET Step(run, edge, border) ==
               /\ filterRun' =
                      NextPosition([run EXCEPT !.visited = @ \cup {<<run.x, run.y>>},
                                               !.marks = IF edge THEN Append(@, <<run.x, run.y>>)
                                                         ELSE @],
                                   run.x, run.y, border,
                                   width - border - 1, height - border - 1)
               /\ data' = IF edge /\ run.kind = "depth"
                          THEN [data EXCEPT ![run.y * width + run.x] = BLACK]
                          ELSE data
       IN  Step(filterRun,
                IF filterRun.kind = "prewitt"
                THEN PrewittEdge(filterRun.depth_buffer, width, filterRun.x, filterRun.y,
                                 filterRun.threshold)
                ELSE DepthEdge(filterRun.depth_buffer, width, filterRun.x, filterRun.y,
                               filterRun.line_width, filterRun.threshold),
                Border(filterRun.kind, filterRun.line_width))
    /\ UNCHANGED <<width, height, depth, fbHist, ssaaOut, clipCall, xfCall, drawCall, parVars,
                   rast, cullCall, shadeCall, texCall, lineRun>>

\* one iteration of the loop over outline_pixels: the line_width x line_width
\* square at the pixel is set to BLACK, as far as it is inside the buffer
StampMark ==
    /\ filterRun.status = "stamp"
    /\ LET Stamp(p, line_width) ==
               data' = [i \in DOMAIN data |->
                          IF \E dx \in 0 .. line_width - 1, dy \in 0 .. line_width - 1 :
                                /\ p[1] + dx < width
                                /\ p[2] + dy < height
                                /\ i = (p[2] + dy) * width + p[1] + dx
                          THEN BLACK ELSE data[i]]
       IN  Stamp(filterRun.marks[filterRun.k], filterRun.line_width)
    /\ filterRun' = [filterRun EXCEPT !.k = @ + 1,
                                      !.status = IF filterRun.k = Len(filterRun.marks)
                                                 THEN "done" ELSE "stamp"]
    /\ UNCHANGED <<width, height, depth, fbHist, ssaaOut, clipCall, xfCall, drawCall, parVars,
                   rast, cullCall, shadeCall, texCall, lineRun>>

SpecFilter == InitFilter /\ [][StartFilter \/ ScanPixel \/ StampMark]_vars

\* the put_pixel calls of another writer while a filter runs
WriterPixels    == {<<1, 2>>, <<2, 2>>}
WriterFragments == {<<Red, F0>>}

\* another writer calls put_pixel between two steps of the running filter
ConcurrentPut(x, y, color, d) ==
    /\ filterRun.status \in {"scan", "stamp"}
    /\ filterRun.writes < MaxWrites
    /\ PutPixel(x, y, color, d)
    /\ filterRun' = [filterRun EXCEPT !.writes = @ + 1]
    /\ UNCHANGED <<ssaaOut, clipCall, xfCall, drawCall, parVars,
                   rast, cullCall, shadeCall, texCall, lineRun>>

SpecFilterPar ==
    InitFilter /\ [][\/ StartFilter
                     \/ ScanPixel
                     \/ StampMark
                     \/ \E p \in WriterPixels, f \in WriterFragments :
                           ConcurrentPut(p[1], p[2], f[1], f[2])]_vars

---------------------------------------------------------------------------
(* The pixels the outline filters evaluate and mark (under SpecFilter) *)

\* the filter has taken its snapshot
FilterEntered == filterRun.status \in {"scan", "stamp", "done"}

\* the pixels pushed on outline_pixels or written by draw_depth_outline so far
Marked == {filterRun.marks[i] : i \in 1 .. Len(filterRun.marks)}

\* pixel p is at least n pixels away from every edge of the buffer
AwayFromEdges(p, n) ==
    /\ p[1] >= n /\ p[1] <= width - 1 - n
    /\ p[2] >= n /\ p[2] <= height - 1 - n

\* C25: no pixel closer than line_width to an edge of the buffer is evaluated
\* or marked by an outline filter
C25_BorderExcluded ==
    FilterEntered =>
        \A p \in filterRun.visited \cup Marked : AwayFromEdges(p, filterRun.line_width)

\* C26: a pixel whose depth is at or beyond the far sentinel 1.0 is never
\* marked as an edge by a depth outline filter
C26_BackgroundNeverMarked ==
    FilterEntered =>
        \A p \in Marked : FLt(filterRun.depth_buffer[p[2] * width + p[1]], FarDepth)

\* the depth of pixel (x, y) of the snapshot in units of 2^-27
Depth27(x, y) == Fixed27(filterRun.depth_buffer[y * width + x])

\* the Prewitt gradients at pixel p in exact arithmetic, in units of 2^-27:
\* right column minus left column, bottom row minus top row
Gx27(p) ==
    (Depth27(p[1] + 1, p[2] - 1) + Depth27(p[1] + 1, p[2]) + Depth27(p[1] + 1, p[2] + 1))
    - (Depth27(p[1] - 1, p[2] - 1) + Depth27(p[1] - 1, p[2]) + Depth27(p[1] - 1, p[2] + 1))
Gy27(p) ==
    (Depth27(p[1] - 1, p[2] + 1) + Depth27(p[1], p[2] + 1) + Depth27(p[1] + 1, p[2] + 1))
    - (Depth27(p[1] - 1, p[2] - 1) + Depth27(p[1], p[2] - 1) + Depth27(p[1] + 1, p[2] - 1))

\* the pixels the Prewitt filter evaluates: those its loops reach that are not
\* background
Evaluated == {p \in filterRun.visited : Depth27(p[1], p[2]) < 2 ^ 27}

\* pixel i of the buffer is in the line_width x line_width square anchored at p
InSquare(i, p) ==
    /\ i % width \in p[1] .. p[1] + filterRun.line_width - 1
    /\ i \div width \in p[2] .. p[2] + filterRun.line_width - 1

\* the depth buffer holds one value
UniformDepth == \A i, j \in DOMAIN depth : depth[i] = depth[j]

\* C27: when the Prewitt filter is done it has marked exactly the evaluated
\* pixels with |Gx| + |Gy| > threshold; exactly the pixels of the squares at
\* the marked pixels hold the outline color, every other color entry and the
\* depth buffer are as before; a buffer of uniform depth is untouched
C27_PrewittEffect ==
    (filterRun.status = "done" /\ filterRun.kind = "prewitt") =>
        /\ Marked = {p \in Evaluated : Abs(Gx27(p)) + Abs(Gy27(p)) > Fixed27(filterRun.threshold)}
        /\ \A i \in DOMAIN data :
              data[i] = IF \E p \in Marked : InSquare(i, p) THEN BLACK ELSE Blue
        /\ depth = filterRun.depth_buffer
        /\ UniformDepth => \A i \in DOMAIN data : data[i] = Blue

---------------------------------------------------------------------------
(* The snapshot of the outline filters (under SpecFilterPar) *)

\* the test of the running filter on pixel p of the depth buffer d
EdgeIn(d, p) ==
    IF filterRun.kind = "prewitt"
    THEN PrewittEdge(d, width, p[1], p[2], filterRun.threshold)
    ELSE DepthEdge(d, width, p[1], p[2], filterRun.line_width, filterRun.threshold)

\* C28: the pixels a filter has marked are the pixels it has reached that are
\* edges of the depth buffer as it was when the filter started, whatever has
\* been written to the framebuffer since
C28_MarksFromSnapshot ==
    FilterEntered =>
        \A p \in filterRun.visited : p \in Marked <=> EdgeIn(filterRun.depth_buffer, p)

\* a filter is done after another writer changed the depth buffer while it ran,
\* and on the changed buffer a pixel it left unmarked would be an edge
C28_Witness ==
    /\ filterRun.status = "done"
    /\ filterRun.writes > 0
    /\ depth # filterRun.depth_buffer
    /\ \E p \in filterRun.visited : EdgeIn(depth, p) /\ p \notin Marked
    /\ Marked # {}

---------------------------------------------------------------------------
(* The stored depth between two clears (under Spec) *)

\* the step is a put_pixel call that attempts pixel i with a depth in [0, 1]
AttemptsInRange(i) ==
    /\ call'.op = "put"
    /\ call'.x < width
    /\ call'.y < height
    /\ i = call'.y * width + call'.x
    /\ FGe(call'.depth, F0)
    /\ FLe(call'.depth, F1)

\* the smaller of two depths
NearerOf(a, b) == IF FLt(b, a) THEN b ELSE a

\* C29: a put_pixel call never increases a stored depth: it leaves at every
\* pixel the minimum of the depth stored before and the in-range depth it
\* attempts there, so that since the last clear, which stores 1.0, the stored
\* depth is the minimum of 1.0 and the in-range depths attempted; a call with
\* depth 1.0 changes nothing, and a pixel holding depth 0.0 keeps its color
\* and depth
C29_DepthNeverIncreases ==
    [][call'.op = "put" =>
          /\ \A i \in DOMAIN depth :
                /\ FLe(depth'[i], depth[i])
                /\ depth'[i] = IF AttemptsInRange(i) THEN NearerOf(depth[i], call'.depth)
                               ELSE depth[i]
                /\ depth[i] = F0 => data'[i] = data[i] /\ depth'[i] = F0
          /\ call'.depth = F1 => data' = data /\ depth' = depth]_vars

\* a pixel that holds depth 0.0 was attempted again with depth 0.5 and kept
\* its depth and the color of the first call
C29_Witness ==
    /\ ncalls = 2
    /\ call.op = "put"
    /\ call.x < width
    /\ call.y < height
    /\ call.depth = FHalf
    /\ call.color = Green
    /\ depth[call.y * width + call.x] = F0
    /\ data[call.y * width + call.x] = Red
    /\ commits[call.y * width + call.x] = 1

---------------------------------------------------------------------------
(* renderer.rs: draw_line_clipped and draw_line, one loop iteration per step *)

MaxLineSide == 3    \* largest width of the framebuffer a line is drawn on
MaxLineLoop == 8    \* most iterations of a loop of draw_line_clipped and draw_line followed

I32Max == 2147483647

\* region codes
INSIDE == 0
LEFT   == 1
RIGHT  == 2
BOTTOM == 4
TOP    == 8

\* the framebuffers lines are drawn on, as <<width, height>>
LineDims == {<<1, 1>>, <<MaxLineSide, MaxLineSide - 1>>}

\* the endpoint coordinates: -3.5, -1, 0, 1.5, 2, 4, 1000, infinity and NaN
LineCoords ==
    {<<-7, -1>>, <<-1, 0>>, F0, <<3, -1>>, <<1, 1>>, <<1, 2>>, <<125, 3>>, PosInf, NaN}

\* `a as i32`: truncates; NaN gives 0, a value out of range saturates
AsI32(a) ==
    IF IsNaN(a) \/ a[1] = 0 THEN 0
    ELSE IF Top(a) > 31 THEN (IF a[1] > 0 THEN I32Max ELSE 0 - I32Max - 1)
    ELSE IF a[2] >= 0 THEN a[1] * (2 ^ a[2])
    ELSE IF 0 - a[2] >= SigBits THEN 0
    ELSE Sgn(a[1]) * (Abs(a[1]) \div (2 ^ (0 - a[2])))

\* `a.round() as i32`: f32::round rounds half away from zero
RoundAsI32(a) ==
    IF IsNaN(a) \/ a[1] = 0 THEN 0
    ELSE IF a[2] >= 0 THEN AsI32(a)
    ELSE IF 0 - a[2] > SigBits THEN 0
    ELSE Sgn(a[1]) * ((Abs(a[1]) + 2 ^ (0 - a[2] - 1)) \div (2 ^ (0 - a[2])))

\* `n as f32` for an i32
I32AsF32(n) == RoundSig(n, 0)

compute_code(x, y, w, h) ==
    (IF x < 0 THEN LEFT ELSE IF x >= w THEN RIGHT ELSE INSIDE)
    + (IF y < 0 THEN BOTTOM ELSE IF y >= h THEN TOP ELSE INSIDE)

\* (code & bit) != 0
HasBit(code, bit) == (code \div bit) % 2 = 1

\* mutant of compute_intersection: t = 0, the first endpoint itself
compute_intersection_Stuck(x0, y0, x1, y1, boundary, w, h) == <<x0, y0>>

compute_intersection(x0, y0, x1, y1, boundary, w, h) ==
    LET At(t) == <<FAdd(x0, FMul(t, FSub(x1, x0))), FAdd(y0, FMul(t, FSub(y1, y0)))>>
        Along(a0, a1, edge) == FDiv(FSub(edge, a0), FSub(a1, a0))
    IN  At(IF boundary = LEFT \/ boundary = RIGHT
           THEN Along(x0, x1, IF boundary = LEFT THEN F0 ELSE FSub(w, F1))
           ELSE Along(y0, y1, IF boundary = BOTTOM THEN F0 ELSE FSub(h, F1)))

\* a framebuffer of at least 1x1 pixels, draw_line_clipped not called yet
InitLine ==
    /\ \E d \in LineDims :
          /\ width = d[1]
          /\ height = d[2]
          /\ data = New(d[1], d[2]).data
          /\ depth = New(d[1], d[2]).depth
          /\ commits = [i \in Indices(d[1], d[2]) |-> 0]
    /\ call = NoCall
    /\ nstored = 0
    /\ ncalls = 0
    /\ ssaaOut = NoSsaa
    /\ clipCall = NoClip
    /\ xfCall = NoTransform
    /\ drawCall = NoDraw
    /\ ParIdle
    /\ rast = [status |-> "none"]
    /\ cullCall = [status |-> "none"]
    /\ shadeCall = [n |-> 0]
    /\ texCall = [status |-> "none"]
    /\ filterRun = [status |-> "none"]
    /\ lineRun = [status |-> "ready"]

\* draw_line_clipped is entered: the casts of the endpoints and their region
\* codes (dx, dy, sx, sy and err are set when draw_line is entered; clips and
\* puts count the iterations of the two loops)
CallDrawLineClipped(x0, y0, x1, y1) ==
    /\ lineRun.status = "ready"
    /\ lineRun' = [status |-> "clip", args |-> <<x0, y0, x1, y1>>,
                   x0 |-> AsI32(x0), y0 |-> AsI32(y0),
                   x1 |-> AsI32(x1), y1 |-> AsI32(y1),
                   code0 |-> compute_code(AsI32(x0), AsI32(y0), width, height),
                   code1 |-> compute_code(AsI32(x1), AsI32(y1), width, height),
                   dx |-> 0, dy |-> 0, sx |-> 0, sy |-> 0, err |-> 0,
                   clips |-> 0, puts |-> 0]
    /\ UNCHANGED <<fbVars, fbHist, ssaaOut, clipCall, xfCall, drawCall, parVars,
                   rast, cullCall, shadeCall, texCall, filterRun>>

\* one iteration of the Cohen-Sutherland loop: accept (and enter draw_line
\* when the endpoints are in the framebuffer), reject, or move the endpoint
\* that is outside onto a boundary
ClipStep ==
    /\ lineRun.status = "clip"
    /\ lineRun.clips < MaxLineLoop
    /\ LET Moved(run, first, p) ==
               IF first
               THEN [run EXCEPT !.x0 = RoundAsI32(p[1]), !.y0 = RoundAsI32(p[2]),
                                !.code0 = compute_code(RoundAsI32(p[1]), RoundAsI32(p[2]),
                                                       width, height)]
               ELSE [run EXCEPT !.x1 = RoundAsI32(p[1]), !.y1 = RoundAsI32(p[2]),
                                !.code1 = compute_code(RoundAsI32(p[1]), RoundAsI32(p[2]),
                                                       width, height)]
           Clipped(run, code_out) ==
               Moved(run, code_out = run.code0,
                     compute_intersection(I32AsF32(run.x0), I32AsF32(run.y0),
                                          I32AsF32(run.x1), I32AsF32(run.y1),
                                          IF HasBit(code_out, TOP) THEN TOP
                                          ELSE IF HasBit(code_out, BOTTOM) THEN BOTTOM
                                          ELSE IF HasBit(code_out, RIGHT) THEN RIGHT
                                          ELSE LEFT,
                                          I32AsF32(width), I32AsF32(height)))
           Accepted(run, x0, y0, x1, y1) ==
               IF x0 < width /\ y0 < height /\ x1 < width /\ y1 < height
               THEN [run EXCEPT !.status = "draw", !.x0 = x0, !.y0 = y0, !.x1 = x1, !.y1 = y1,
                                !.dx = Abs(x1 - x0), !.dy = Abs(y1 - y0),
                                !.sx = IF x0 < x1 THEN 1 ELSE 0 - 1,
                                !.sy = IF y0 < y1 THEN 1 ELSE 0 - 1,
                                !.err = Abs(x1 - x0) - Abs(y1 - y0)]
               ELSE [run EXCEPT !.status = "rejected"]
           Loop(run) ==
               IF run.code0 = INSIDE /\ run.code1 = INSIDE
               THEN Accepted(run, Max2(run.x0, 0), Max2(run.y0, 0),
                             Max2(run.x1, 0), Max2(run.y1, 0))
               ELSE IF \E bit \in {LEFT, RIGHT, BOTTOM, TOP} :
                          HasBit(run.code0, bit) /\ HasBit(run.code1, bit)
               THEN [run EXCEPT !.status = "rejected"]
               ELSE Clipped(run, IF run.code0 # INSIDE THEN run.code0 ELSE run.code1)
       IN  lineRun' = Loop([lineRun EXCEPT !.clips = @ + 1])
    /\ UNCHANGED <<fbVars, fbHist, ssaaOut, clipCall, xfCall, drawCall, parVars,
                   rast, cullCall, shadeCall, texCall, filterRun>>

\* one iteration of the Bresenham loop of draw_line: the pixel is put at depth
\* 0.0, and the loop ends at the second endpoint
DrawStep ==
    /\ lineRun.status = "draw"
    /\ lineRun.puts < MaxLineLoop
    /\ LET Put(fb) == data' = fb.data /\ depth' = fb.depth
           Advance(run, e2) ==
               [run EXCEPT !.err = (IF e2 > 0 - run.dy THEN @ - run.dy ELSE @)
                                   + (IF e2 < run.dx THEN run.dx ELSE 0),
                           !.x0 = IF e2 > 0 - run.dy THEN @ + run.sx ELSE @,
                           !.y0 = IF e2 < run.dx THEN @ + run.sy ELSE @]
           Loop(run) ==
               /\ Put(IF run.x0 >= 0 /\ run.y0 >= 0
                      THEN PutPixelBuf(Buf, run.x0, run.y0, Red, F0) ELSE Buf)
               /\ lineRun' =
                      IF run.x0 = run.x1 /\ run.y0 = run.y1
                      THEN [run EXCEPT !.status = "done"]
                      ELSE Advance(run, 2 * run.err)
       IN  Loop([lineRun EXCEPT !.puts = @ + 1])
    /\ UNCHANGED <<width, height, fbHist, ssaaOut, clipCall, xfCall, drawCall, parVars,
                   rast, cullCall, shadeCall, texCall, filterRun>>

SpecLine ==
    InitLine /\ [][\/ \E x0 \in LineCoords, y0 \in LineCoords, x1 \in LineCoords,
                         y1 \in LineCoords : CallDrawLineClipped(x0, y0, x1, y1)
                   \/ ClipStep
                   \/ DrawStep]_vars

---------------------------------------------------------------------------
(* Termination of line drawing (under SpecLine) *)

\* the distance, in Bresenham steps, from the current pixel to the second endpoint
StepsLeft ==
    Max2(Abs(lineRun.x1 - lineRun.x0), Abs(lineRun.y1 - lineRun.y0))

====
